---- MODULE Spec2Model ----
(***************************************************************************)
(* A model of jellexet/golang-text-editor: the rope of pkg/buffer/rope.go  *)
(* and the editing session of pkg/editor/editor.go.                        *)
(*                                                                         *)
(* A Go string is a sequence of bytes (integers 0..255).  A *Rope is       *)
(* either Nil or a record with the four fields of the Go struct.  A Go     *)
(* (value, error) result is a record with an ok field.                     *)
(***************************************************************************)
EXTENDS Integers, Sequences, FiniteSets, TLC

(***************************************************************************)
(* Bounds of the model.                                                    *)
(***************************************************************************)
\* recorded edits (undoStack and redoStack together) the model lets happen
MaxHist == 2
\* bytes of text the model lets the buffer hold
MaxLen == 2
\* bytes the line prompt accepts before it stops taking printable keys
MaxQuery == 1
\* bytes of the longest text a session that searches is started on
MaxText == 5
\* rope operations the model applies one after the other to a new rope
MaxOps == 2

(***************************************************************************)
(* Bytes and key codes (editor.go:68-90).                                  *)
(***************************************************************************)
CtrlF == 6
CtrlN == 14
CtrlQ == 17
CtrlR == 18
CtrlS == 19
CtrlZ == 26
Esc == 27
Return == 13
Backspace == 127
ArrowUp == 1000
ArrowDown == 1001
ArrowLeft == 1002
ArrowRight == 1003
\* '\n', the line-break byte
NL == 10

\* byte(key): the conversion of an int key code to a byte keeps 8 bits
ToByte(key) == key % 256

\* string(b) for a byte b: the UTF-8 encoding of the code point b, which is
\* one byte below 0x80 and two bytes from 0x80 on
ByteToString(b) ==
  IF b < 128 THEN << b >> ELSE << 192 + (b \div 64), 128 + (b % 64) >>

\* isRegularCharacter taking every byte from SPACE on
isRegularCharacterNoUpperEnd(c) == c >= 32

isRegularCharacter(c) == c >= 32 /\ c < 127

(***************************************************************************)
(* pkg/buffer/rope.go                                                      *)
(***************************************************************************)
maxLeafLength == 8

Nil == [nil |-> TRUE]

MkRope(l, r, d, w) == [left |-> l, right |-> r, data |-> d, weight |-> w]

isLeaf(r) == r.left = Nil /\ r.right = Nil

RECURSIVE Length(_)
Length(r) ==
  IF r = Nil THEN 0
  ELSE IF isLeaf(r) THEN Len(r.data)
  ELSE Length(r.left) + Length(r.right)

RECURSIVE String(_)
String(r) ==
  IF r = Nil THEN << >>
  ELSE IF isLeaf(r) THEN r.data
  ELSE String(r.left) \o String(r.right)

RECURSIVE NewRope(_)
NewRope(s) ==
  IF Len(s) <= maxLeafLength
  THEN MkRope(Nil, Nil, s, Len(s))
  ELSE LET mid == Len(s) \div 2
           left == NewRope(SubSeq(s, 1, mid))
           right == NewRope(SubSeq(s, mid + 1, Len(s)))
       IN MkRope(left, right, << >>, Length(left))

Weight(r) == IF r = Nil THEN 0 ELSE r.weight

\* Index going to the right subtree with the index as it is
RECURSIVE IndexRightUnadjusted(_, _)
IndexRightUnadjusted(r, i) ==
  IF r = Nil THEN [ok |-> FALSE, byte |-> 0]
  ELSE IF i < 0 \/ i >= Length(r) THEN [ok |-> FALSE, byte |-> 0]
  ELSE IF isLeaf(r) THEN [ok |-> TRUE, byte |-> r.data[i + 1]]
  ELSE IF i < r.weight THEN IndexRightUnadjusted(r.left, i)
  ELSE IndexRightUnadjusted(r.right, i)

\* Index returns (byte, error); the byte is 0 when there is an error
RECURSIVE Index(_, _)
Index(r, i) ==
  IF r = Nil THEN [ok |-> FALSE, byte |-> 0]
  ELSE IF i < 0 \/ i >= Length(r) THEN [ok |-> FALSE, byte |-> 0]
  ELSE IF isLeaf(r) THEN [ok |-> TRUE, byte |-> r.data[i + 1]]
  ELSE IF i < r.weight THEN Index(r.left, i)
  ELSE Index(r.right, i - r.weight)

\* Concat with the length of the right rope as the weight of the new node
ConcatWeightOfRight(r1, r2) ==
  IF r1 = Nil THEN r2
  ELSE IF r2 = Nil THEN r1
  ELSE MkRope(r1, r2, << >>, Length(r2))

Concat(r1, r2) ==
  IF r1 = Nil THEN r2
  ELSE IF r2 = Nil THEN r1
  ELSE MkRope(r1, r2, << >>, Length(r1))

SplitErr == [ok |-> FALSE, left |-> Nil, right |-> Nil]

\* Split that, splitting in the left subtree, leaves out the right subtree
RECURSIVE SplitLeftDropsRight(_, _)
SplitLeftDropsRight(r, i) ==
  IF r = Nil THEN SplitErr
  ELSE IF i < 0 \/ i > Length(r) THEN SplitErr
  ELSE IF i = 0 THEN [ok |-> TRUE, left |-> Nil, right |-> r]
  ELSE IF i = Length(r) THEN [ok |-> TRUE, left |-> r, right |-> Nil]
  ELSE IF isLeaf(r)
    THEN [ok |-> TRUE, left |-> NewRope(SubSeq(r.data, 1, i)),
          right |-> NewRope(SubSeq(r.data, i + 1, Len(r.data)))]
  ELSE IF i < r.weight
    THEN LET sp == SplitLeftDropsRight(r.left, i)
         IN IF ~sp.ok THEN SplitErr
            ELSE [ok |-> TRUE, left |-> sp.left, right |-> sp.right]
  ELSE IF i > r.weight
    THEN LET sp == SplitLeftDropsRight(r.right, i - r.weight)
         IN IF ~sp.ok THEN SplitErr
            ELSE [ok |-> TRUE, left |-> Concat(r.left, sp.left),
                  right |-> sp.right]
  ELSE [ok |-> TRUE, left |-> r.left, right |-> r.right]

RECURSIVE Split(_, _)
Split(r, i) ==
  IF r = Nil THEN SplitErr
  ELSE IF i < 0 \/ i > Length(r) THEN SplitErr
  ELSE IF i = 0 THEN [ok |-> TRUE, left |-> Nil, right |-> r]
  ELSE IF i = Length(r) THEN [ok |-> TRUE, left |-> r, right |-> Nil]
  ELSE IF isLeaf(r)
    THEN [ok |-> TRUE, left |-> NewRope(SubSeq(r.data, 1, i)),
          right |-> NewRope(SubSeq(r.data, i + 1, Len(r.data)))]
  ELSE IF i < r.weight
    THEN LET sp == Split(r.left, i)
         IN IF ~sp.ok THEN SplitErr
            ELSE [ok |-> TRUE, left |-> sp.left,
                  right |-> Concat(sp.right, r.right)]
  ELSE IF i > r.weight
    THEN LET sp == Split(r.right, i - r.weight)
         IN IF ~sp.ok THEN SplitErr
            ELSE [ok |-> TRUE, left |-> Concat(r.left, sp.left),
                  right |-> sp.right]
  ELSE [ok |-> TRUE, left |-> r.left, right |-> r.right]

RopeErr == [ok |-> FALSE, rope |-> Nil]

\* Insert putting the new rope behind the right part
InsertBehindRight(r, i, s) ==
  IF r = Nil THEN [ok |-> TRUE, rope |-> NewRope(s)]
  ELSE IF i < 0 \/ i > Length(r) THEN RopeErr
  ELSE LET sp == Split(r, i)
       IN IF ~sp.ok THEN RopeErr
          ELSE [ok |-> TRUE,
                rope |-> Concat(Concat(sp.left, sp.right), NewRope(s))]

Insert(r, i, s) ==
  IF r = Nil THEN [ok |-> TRUE, rope |-> NewRope(s)]
  ELSE IF i < 0 \/ i > Length(r) THEN RopeErr
  ELSE LET sp == Split(r, i)
       IN IF ~sp.ok THEN RopeErr
          ELSE [ok |-> TRUE,
                rope |-> Concat(Concat(sp.left, NewRope(s)), sp.right)]

\* Delete without the return of r for an empty range
DeleteSplitsEmptyRange(r, start, end) ==
  IF r = Nil THEN RopeErr
  ELSE IF start < 0 \/ end > Length(r) \/ start > end THEN RopeErr
  ELSE LET sp1 == Split(r, start)
       IN IF ~sp1.ok THEN RopeErr
          ELSE LET sp2 == Split(sp1.right, end - start)
               IN IF ~sp2.ok THEN RopeErr
                  ELSE [ok |-> TRUE, rope |-> Concat(sp1.left, sp2.right)]

\* Delete with the second split at end, not at end - start
DeleteSecondSplitAtEnd(r, start, end) ==
  IF r = Nil THEN RopeErr
  ELSE IF start < 0 \/ end > Length(r) \/ start > end THEN RopeErr
  ELSE IF start = end THEN [ok |-> TRUE, rope |-> r]
  ELSE LET sp1 == Split(r, start)
       IN IF ~sp1.ok THEN RopeErr
          ELSE LET sp2 == Split(sp1.right, end)
               IN IF ~sp2.ok THEN RopeErr
                  ELSE [ok |-> TRUE, rope |-> Concat(sp1.left, sp2.right)]

Delete(r, start, end) ==
  IF r = Nil THEN RopeErr
  ELSE IF start < 0 \/ end > Length(r) \/ start > end THEN RopeErr
  ELSE IF start = end THEN [ok |-> TRUE, rope |-> r]
  ELSE LET sp1 == Split(r, start)
       IN IF ~sp1.ok THEN RopeErr
          ELSE LET sp2 == Split(sp1.right, end - start)
               IN IF ~sp2.ok THEN RopeErr
                  ELSE [ok |-> TRUE, rope |-> Concat(sp1.left, sp2.right)]

\* Substring returns (string, error); the string is "" when there is an
\* error
SubstringErr == [ok |-> FALSE, str |-> << >>]

\* Substring with the second split at end, not at end - start
SubstringSecondSplitAtEnd(r, start, end) ==
  IF r = Nil THEN SubstringErr
  ELSE IF start < 0 \/ end > Length(r) \/ start > end THEN SubstringErr
  ELSE IF start = end THEN [ok |-> TRUE, str |-> << >>]
  ELSE LET sp1 == Split(r, start)
       IN IF ~sp1.ok THEN SubstringErr
          ELSE LET sp2 == Split(sp1.right, end)
               IN IF ~sp2.ok THEN SubstringErr
                  ELSE [ok |-> TRUE, str |-> String(sp2.left)]

Substring(r, start, end) ==
  IF r = Nil THEN SubstringErr
  ELSE IF start < 0 \/ end > Length(r) \/ start > end THEN SubstringErr
  ELSE IF start = end THEN [ok |-> TRUE, str |-> << >>]
  ELSE LET sp1 == Split(r, start)
       IN IF ~sp1.ok THEN SubstringErr
          ELSE LET sp2 == Split(sp1.right, end - start)
               IN IF ~sp2.ok THEN SubstringErr
                  ELSE [ok |-> TRUE, str |-> String(sp2.left)]

Rebalance(r) == IF r = Nil THEN Nil ELSE NewRope(String(r))

(***************************************************************************)
(* rope.go once more, with the nodes in memory: a *Rope is the address of  *)
(* a node (0 is nil), nodes is the sequence of the nodes allocated so far, *)
(* and &Rope{...} allocates the next address.  An operation takes nodes    *)
(* and gives back the nodes after it with its result.                      *)
(***************************************************************************)
\* &Rope{...}
Alloc(nodes, node) == [nodes |-> Append(nodes, node), ref |-> Len(nodes) + 1]

HisLeaf(nodes, r) == nodes[r].left = 0 /\ nodes[r].right = 0

RECURSIVE HLength(_, _)
HLength(nodes, r) ==
  IF r = 0 THEN 0
  ELSE IF HisLeaf(nodes, r) THEN Len(nodes[r].data)
  ELSE HLength(nodes, nodes[r].left) + HLength(nodes, nodes[r].right)

RECURSIVE HString(_, _)
HString(nodes, r) ==
  IF r = 0 THEN << >>
  ELSE IF HisLeaf(nodes, r) THEN nodes[r].data
  ELSE HString(nodes, nodes[r].left) \o HString(nodes, nodes[r].right)

RECURSIVE HNewRope(_, _)
HNewRope(nodes, s) ==
  IF Len(s) <= maxLeafLength
  THEN Alloc(nodes, MkRope(0, 0, s, Len(s)))
  ELSE LET mid == Len(s) \div 2
           left == HNewRope(nodes, SubSeq(s, 1, mid))
           right == HNewRope(left.nodes, SubSeq(s, mid + 1, Len(s)))
       IN Alloc(right.nodes,
                MkRope(left.ref, right.ref, << >>,
                       HLength(right.nodes, left.ref)))

RECURSIVE HIndex(_, _, _)
HIndex(nodes, r, i) ==
  IF r = 0 THEN [ok |-> FALSE, byte |-> 0]
  ELSE IF i < 0 \/ i >= HLength(nodes, r) THEN [ok |-> FALSE, byte |-> 0]
  ELSE IF HisLeaf(nodes, r) THEN [ok |-> TRUE, byte |-> nodes[r].data[i + 1]]
  ELSE IF i < nodes[r].weight THEN HIndex(nodes, nodes[r].left, i)
  ELSE HIndex(nodes, nodes[r].right, i - nodes[r].weight)

\* Concat that, given two leaves that fit in one, writes the bytes of the
\* second into the first
HConcatIntoLeaf(nodes, r1, r2) ==
  IF r1 = 0 THEN [nodes |-> nodes, ref |-> r2]
  ELSE IF r2 = 0 THEN [nodes |-> nodes, ref |-> r1]
  ELSE IF /\ HisLeaf(nodes, r1)
          /\ HisLeaf(nodes, r2)
          /\ Len(nodes[r1].data) + Len(nodes[r2].data) <= maxLeafLength
  THEN [nodes |-> [nodes EXCEPT ![r1] =
                     MkRope(0, 0, nodes[r1].data \o nodes[r2].data,
                            Len(nodes[r1].data) + Len(nodes[r2].data))],
        ref |-> r1]
  ELSE Alloc(nodes, MkRope(r1, r2, << >>, HLength(nodes, r1)))

\* Concat with the length of both ropes as the weight of the new node
HConcatWeightOfBoth(nodes, r1, r2) ==
  IF r1 = 0 THEN [nodes |-> nodes, ref |-> r2]
  ELSE IF r2 = 0 THEN [nodes |-> nodes, ref |-> r1]
  ELSE Alloc(nodes, MkRope(r1, r2, << >>,
                           HLength(nodes, r1) + HLength(nodes, r2)))

HConcat(nodes, r1, r2) ==
  IF r1 = 0 THEN [nodes |-> nodes, ref |-> r2]
  ELSE IF r2 = 0 THEN [nodes |-> nodes, ref |-> r1]
  ELSE Alloc(nodes, MkRope(r1, r2, << >>, HLength(nodes, r1)))

HSplitResult(nodes, ok, left, right) ==
  [nodes |-> nodes, ok |-> ok, left |-> left, right |-> right]

RECURSIVE HSplit(_, _, _)
HSplit(nodes, r, i) ==
  IF r = 0 THEN HSplitResult(nodes, FALSE, 0, 0)
  ELSE IF i < 0 \/ i > HLength(nodes, r) THEN HSplitResult(nodes, FALSE, 0, 0)
  ELSE IF i = 0 THEN HSplitResult(nodes, TRUE, 0, r)
  ELSE IF i = HLength(nodes, r) THEN HSplitResult(nodes, TRUE, r, 0)
  ELSE IF HisLeaf(nodes, r)
    THEN LET left == HNewRope(nodes, SubSeq(nodes[r].data, 1, i))
             right == HNewRope(left.nodes,
                               SubSeq(nodes[r].data, i + 1, Len(nodes[r].data)))
         IN HSplitResult(right.nodes, TRUE, left.ref, right.ref)
  ELSE IF i < nodes[r].weight
    THEN LET sp == HSplit(nodes, nodes[r].left, i)
             c == HConcat(sp.nodes, sp.right, nodes[r].right)
         IN IF ~sp.ok THEN HSplitResult(sp.nodes, FALSE, 0, 0)
            ELSE HSplitResult(c.nodes, TRUE, sp.left, c.ref)
  ELSE IF i > nodes[r].weight
    THEN LET sp == HSplit(nodes, nodes[r].right, i - nodes[r].weight)
             c == HConcat(sp.nodes, nodes[r].left, sp.left)
         IN IF ~sp.ok THEN HSplitResult(sp.nodes, FALSE, 0, 0)
            ELSE HSplitResult(c.nodes, TRUE, c.ref, sp.right)
  ELSE HSplitResult(nodes, TRUE, nodes[r].left, nodes[r].right)

HRopeResult(nodes, ok, ref) == [nodes |-> nodes, ok |-> ok, ref |-> ref]

HInsert(nodes, r, i, s) ==
  IF r = 0
  THEN LET new == HNewRope(nodes, s) IN HRopeResult(new.nodes, TRUE, new.ref)
  ELSE IF i < 0 \/ i > HLength(nodes, r) THEN HRopeResult(nodes, FALSE, 0)
  ELSE LET sp == HSplit(nodes, r, i)
           newRope == HNewRope(sp.nodes, s)
           c1 == HConcat(newRope.nodes, sp.left, newRope.ref)
           c2 == HConcat(c1.nodes, c1.ref, sp.right)
       IN IF ~sp.ok THEN HRopeResult(sp.nodes, FALSE, 0)
          ELSE HRopeResult(c2.nodes, TRUE, c2.ref)

HDelete(nodes, r, start, end) ==
  IF r = 0 THEN HRopeResult(nodes, FALSE, 0)
  ELSE IF start < 0 \/ end > HLength(nodes, r) \/ start > end
  THEN HRopeResult(nodes, FALSE, 0)
  ELSE IF start = end THEN HRopeResult(nodes, TRUE, r)
  ELSE LET sp1 == HSplit(nodes, r, start)
           sp2 == HSplit(sp1.nodes, sp1.right, end - start)
           c == HConcat(sp2.nodes, sp1.left, sp2.right)
       IN IF ~sp1.ok THEN HRopeResult(sp1.nodes, FALSE, 0)
          ELSE IF ~sp2.ok THEN HRopeResult(sp2.nodes, FALSE, 0)
          ELSE HRopeResult(c.nodes, TRUE, c.ref)

HSubstringResult(nodes, ok, str) == [nodes |-> nodes, ok |-> ok, str |-> str]

HSubstring(nodes, r, start, end) ==
  IF r = 0 THEN HSubstringResult(nodes, FALSE, << >>)
  ELSE IF start < 0 \/ end > HLength(nodes, r) \/ start > end
  THEN HSubstringResult(nodes, FALSE, << >>)
  ELSE IF start = end THEN HSubstringResult(nodes, TRUE, << >>)
  ELSE LET sp1 == HSplit(nodes, r, start)
           sp2 == HSplit(sp1.nodes, sp1.right, end - start)
       IN IF ~sp1.ok THEN HSubstringResult(sp1.nodes, FALSE, << >>)
          ELSE IF ~sp2.ok THEN HSubstringResult(sp2.nodes, FALSE, << >>)
          ELSE HSubstringResult(sp2.nodes, TRUE, HString(sp2.nodes, sp2.left))

HRebalance(nodes, r) ==
  IF r = 0 THEN [nodes |-> nodes, ref |-> 0]
  ELSE HNewRope(nodes, HString(nodes, r))

\* the rope at the address r: its nodes, with the nodes below them in the
\* place of their addresses
RECURSIVE RopeAt(_, _)
RopeAt(nodes, r) ==
  IF r = 0 THEN Nil
  ELSE MkRope(RopeAt(nodes, nodes[r].left), RopeAt(nodes, nodes[r].right),
              nodes[r].data, nodes[r].weight)

(***************************************************************************)
(* strings.Count, strings.Index and strings.Split of the Go library, as    *)
(* editor.go uses them: sep is never empty                                 *)
(***************************************************************************)
HasPrefixAt(text, sep, i) ==
  /\ i + Len(sep) <= Len(text)
  /\ \A k \in 1..Len(sep) : text[i + k] = sep[k]

\* strings.Index(text, sep): 0-based offset of the first occurrence, or -1
StringsIndex(text, sep) ==
  LET hits == { i \in 0..Len(text) : HasPrefixAt(text, sep, i) }
  IN IF hits = {} THEN -1
     ELSE CHOOSE i \in hits : \A j \in hits : i <= j

\* text[from:], 0-based
SliceFrom(text, from) == SubSeq(text, from + 1, Len(text))

\* strings.Count(text, sep): occurrences counted left to right, each one
\* moving the scan past itself
RECURSIVE StringsCount(_, _)
StringsCount(text, sep) ==
  LET i == StringsIndex(text, sep)
  IN IF i = -1 THEN 0
     ELSE 1 + StringsCount(SliceFrom(text, i + Len(sep)), sep)

\* StringsSplit without the empty line behind a line break that ends the text
RECURSIVE StringsSplitNoTrailing(_)
StringsSplitNoTrailing(text) ==
  LET i == StringsIndex(text, << NL >>)
  IN IF i = -1 THEN << text >>
     ELSE IF i + 1 = Len(text) THEN << SubSeq(text, 1, i) >>
     ELSE << SubSeq(text, 1, i) >> \o StringsSplitNoTrailing(SliceFrom(text, i + 1))

\* strings.Split(text, "\n")
RECURSIVE StringsSplit(_)
StringsSplit(text) ==
  LET i == StringsIndex(text, << NL >>)
  IN IF i = -1 THEN << text >>
     ELSE << SubSeq(text, 1, i) >> \o StringsSplit(SliceFrom(text, i + 1))

(***************************************************************************)
(* pkg/editor/editor.go: the session.  The operators take the Session      *)
(* value s and give the Session value the Go function leaves behind.       *)
(***************************************************************************)
MkAction(t, p, c) == [actionType |-> t, position |-> p, content |-> c]

\* WalkRowCol with the column kept across a line break
RECURSIVE WalkRowColKeepsCol(_, _, _, _, _)
WalkRowColKeepsCol(text, i, idx, row, col) ==
  IF i < idx /\ i < Len(text)
  THEN IF text[i + 1] = NL
       THEN WalkRowColKeepsCol(text, i + 1, idx, row + 1, col)
       ELSE WalkRowColKeepsCol(text, i + 1, idx, row, col + 1)
  ELSE << row, col >>

\* the loop of updateCursorPosition from index i on
RECURSIVE WalkRowCol(_, _, _, _, _)
WalkRowCol(text, i, idx, row, col) ==
  IF i < idx /\ i < Len(text)
  THEN IF text[i + 1] = NL
       THEN WalkRowCol(text, i + 1, idx, row + 1, 1)
       ELSE WalkRowCol(text, i + 1, idx, row, col + 1)
  ELSE << row, col >>

updateCursorPosition(s) ==
  LET rc == WalkRowCol(String(s.rope), 0, s.cursorIdx, 1, 1)
  IN [s EXCEPT !.cursorRow = rc[1], !.cursorCol = rc[2]]

\* getLines without the line of the empty text
getLinesNoneOfEmpty(s) ==
  LET text == String(s.rope)
  IN IF text = << >> THEN << >> ELSE StringsSplit(text)

getLines(s) ==
  LET text == String(s.rope)
  IN IF text = << >> THEN << << >> >> ELSE StringsSplit(text)

\* SumLines without the byte of the line break of each line
RECURSIVE SumLinesNoBreak(_, _, _)
SumLinesNoBreak(lines, i, row) ==
  IF i < row - 1 /\ i < Len(lines)
  THEN Len(lines[i + 1]) + SumLinesNoBreak(lines, i + 1, row)
  ELSE 0

\* the loop of getLineStartIndex from index i on
RECURSIVE SumLines(_, _, _)
SumLines(lines, i, row) ==
  IF i < row - 1 /\ i < Len(lines)
  THEN Len(lines[i + 1]) + 1 + SumLines(lines, i + 1, row)
  ELSE 0

getLineStartIndex(s, row) == SumLines(getLines(s), 0, row)

\* a status message: its fixed text and the values formatted into it
Message(m, q, i, n) == [msg |-> m, query |-> q, i |-> i, n |-> n]

\* the empty statusMessage
NoMessage == Message("", << >>, 0, 0)

\* "[No Name]", the filename of a session started without a file
NoName == << 91, 78, 111, 32, 78, 97, 109, 101, 93 >>

\* InitSession (the screen size is left out: it only feeds the drawing)
InitSession(filename, initialContent) ==
  updateCursorPosition(
    [rope |-> NewRope(initialContent),
     filename |-> filename,
     undoStack |-> << >>,
     redoStack |-> << >>,
     cursorIdx |-> 0,
     cursorRow |-> 1,
     cursorCol |-> 1,
     statusMessage |-> NoMessage,
     lastSearchQuery |-> << >>])

\* the final bounds check of editorMoveCursor
ClampCursor(s) ==
  LET s1 == IF s.cursorIdx < 0 THEN [s EXCEPT !.cursorIdx = 0] ELSE s
  IN IF s1.cursorIdx > Length(s1.rope)
     THEN [s1 EXCEPT !.cursorIdx = Length(s1.rope)]
     ELSE s1

\* lines[row-1] is read without a check in the ArrowLeft and ArrowUp
\* branches: an index out of range is a run-time panic
MoveCursorPanics(s, arrowKey) ==
  /\ arrowKey \in {ArrowLeft, ArrowUp}
  /\ s.cursorRow > 1
  /\ arrowKey = ArrowLeft => ~(s.cursorCol > 1)
  /\ s.cursorRow - 1 > Len(getLines(s))

\* editorMoveCursor with ArrowLeft at the start of a line going to the
\* start of the line before
editorMoveCursorLeftToLineStart(s, arrowKey) ==
  LET lines == getLines(s)
      currentLine == IF s.cursorRow > 0 /\ s.cursorRow <= Len(lines)
                     THEN lines[s.cursorRow] ELSE << >>
      moved ==
        CASE arrowKey = ArrowLeft ->
               IF s.cursorCol > 1
               THEN [s EXCEPT !.cursorCol = @ - 1, !.cursorIdx = @ - 1]
               ELSE IF s.cursorRow > 1
               THEN [s EXCEPT !.cursorRow = @ - 1,
                              !.cursorCol = 1,
                              !.cursorIdx = @ - 1]
               ELSE s
          [] arrowKey = ArrowRight ->
               IF s.cursorCol <= Len(currentLine)
               THEN [s EXCEPT !.cursorCol = @ + 1, !.cursorIdx = @ + 1]
               ELSE IF s.cursorRow < Len(lines)
               THEN [s EXCEPT !.cursorRow = @ + 1, !.cursorCol = 1,
                              !.cursorIdx = @ + 1]
               ELSE s
          [] arrowKey = ArrowUp ->
               IF s.cursorRow > 1
               THEN LET row == s.cursorRow - 1
                        prevLine == lines[row]
                        col == IF s.cursorCol > Len(prevLine) + 1
                               THEN Len(prevLine) + 1 ELSE s.cursorCol
                    IN [s EXCEPT !.cursorRow = row, !.cursorCol = col,
                          !.cursorIdx = getLineStartIndex(s, row) + col - 1]
               ELSE s
          [] arrowKey = ArrowDown ->
               IF s.cursorRow < Len(lines)
               THEN LET row == s.cursorRow + 1
                        nextLine == lines[row]
                        col == IF s.cursorCol > Len(nextLine) + 1
                               THEN Len(nextLine) + 1 ELSE s.cursorCol
                    IN [s EXCEPT !.cursorRow = row, !.cursorCol = col,
                          !.cursorIdx = getLineStartIndex(s, row) + col - 1]
               ELSE s
          [] OTHER -> s
  IN ClampCursor(moved)

editorMoveCursor(s, arrowKey) ==
  LET lines == getLines(s)
      currentLine == IF s.cursorRow > 0 /\ s.cursorRow <= Len(lines)
                     THEN lines[s.cursorRow] ELSE << >>
      moved ==
        CASE arrowKey = ArrowLeft ->
               IF s.cursorCol > 1
               THEN [s EXCEPT !.cursorCol = @ - 1, !.cursorIdx = @ - 1]
               ELSE IF s.cursorRow > 1
               THEN [s EXCEPT !.cursorRow = @ - 1,
                              !.cursorCol = Len(lines[s.cursorRow - 1]) + 1,
                              !.cursorIdx = @ - 1]
               ELSE s
          [] arrowKey = ArrowRight ->
               IF s.cursorCol <= Len(currentLine)
               THEN [s EXCEPT !.cursorCol = @ + 1, !.cursorIdx = @ + 1]
               ELSE IF s.cursorRow < Len(lines)
               THEN [s EXCEPT !.cursorRow = @ + 1, !.cursorCol = 1,
                              !.cursorIdx = @ + 1]
               ELSE s
          [] arrowKey = ArrowUp ->
               IF s.cursorRow > 1
               THEN LET row == s.cursorRow - 1
                        prevLine == lines[row]
                        col == IF s.cursorCol > Len(prevLine) + 1
                               THEN Len(prevLine) + 1 ELSE s.cursorCol
                    IN [s EXCEPT !.cursorRow = row, !.cursorCol = col,
                          !.cursorIdx = getLineStartIndex(s, row) + col - 1]
               ELSE s
          [] arrowKey = ArrowDown ->
               IF s.cursorRow < Len(lines)
               THEN LET row == s.cursorRow + 1
                        nextLine == lines[row]
                        col == IF s.cursorCol > Len(nextLine) + 1
                               THEN Len(nextLine) + 1 ELSE s.cursorCol
                    IN [s EXCEPT !.cursorRow = row, !.cursorCol = col,
                          !.cursorIdx = getLineStartIndex(s, row) + col - 1]
               ELSE s
          [] OTHER -> s
  IN ClampCursor(moved)

\* InsertAction with the position taken after the cursor has moved
InsertActionBehind(s, str) == MkAction("insert", s.cursorIdx + Len(str), str)

\* the Action handleInsert records
InsertAction(s, str) == MkAction("insert", s.cursorIdx, str)

\* handleInsert with redoStack left as it is
handleInsertKeepsRedo(s, str) ==
  LET s1 ==
        IF s.rope = Nil \/ Length(s.rope) = 0
        THEN [s EXCEPT !.rope = NewRope(str)]
        ELSE LET res == Insert(s.rope, s.cursorIdx, str)
             IN IF res.ok
                THEN [s EXCEPT
                        !.undoStack = Append(@, InsertAction(s, str)),
                        !.rope = res.rope]
                ELSE s
  IN updateCursorPosition([s1 EXCEPT !.cursorIdx = @ + Len(str)])

\* handleInsert with the insert into an empty buffer recorded as well
handleInsertRecordsAll(s, str) ==
  LET res == Insert(s.rope, s.cursorIdx, str)
      s1 == IF res.ok
            THEN [s EXCEPT
                    !.undoStack = Append(@, InsertAction(s, str)),
                    !.redoStack = << >>,
                    !.rope = res.rope]
            ELSE s
  IN updateCursorPosition([s1 EXCEPT !.cursorIdx = @ + Len(str)])

handleInsert(s, str) ==
  LET s1 ==
        IF s.rope = Nil \/ Length(s.rope) = 0
        THEN [s EXCEPT !.rope = NewRope(str)]
        ELSE LET res == Insert(s.rope, s.cursorIdx, str)
             IN IF res.ok
                THEN [s EXCEPT
                        !.undoStack = Append(@, InsertAction(s, str)),
                        !.redoStack = << >>,
                        !.rope = res.rope]
                ELSE s
  IN updateCursorPosition([s1 EXCEPT !.cursorIdx = @ + Len(str)])

\* handleBackspace recording the offset of the cursor, not of the byte
handleBackspaceRecordsCursor(s) ==
  IF s.cursorIdx > 0
  THEN LET deletedChar == Index(s.rope, s.cursorIdx - 1).byte
           res == Delete(s.rope, s.cursorIdx - 1, s.cursorIdx)
       IN IF res.ok
          THEN updateCursorPosition(
                 [s EXCEPT
                    !.undoStack = Append(@, MkAction("delete", s.cursorIdx,
                                                     ByteToString(deletedChar))),
                    !.redoStack = << >>,
                    !.rope = res.rope,
                    !.cursorIdx = @ - 1])
          ELSE s
  ELSE s

handleBackspace(s) ==
  IF s.cursorIdx > 0
  THEN LET deletedChar == Index(s.rope, s.cursorIdx - 1).byte
           res == Delete(s.rope, s.cursorIdx - 1, s.cursorIdx)
       IN IF res.ok
          THEN updateCursorPosition(
                 [s EXCEPT
                    !.undoStack = Append(@, MkAction("delete", s.cursorIdx - 1,
                                                     ByteToString(deletedChar))),
                    !.redoStack = << >>,
                    !.rope = res.rope,
                    !.cursorIdx = @ - 1])
          ELSE s
  ELSE s

\* ApplyReverse with the cursor put behind the range of an undone insert
ApplyReverseCursorBehind(s, action) ==
  IF action.actionType = "insert"
  THEN LET res == Delete(s.rope, action.position,
                         action.position + Len(action.content))
       IN IF res.ok
          THEN [s EXCEPT !.rope = res.rope,
                         !.cursorIdx = action.position + Len(action.content)]
          ELSE s
  ELSE IF action.actionType = "delete"
  THEN LET res == Insert(s.rope, action.position, action.content)
       IN IF res.ok
          THEN [s EXCEPT !.rope = res.rope,
                         !.cursorIdx = action.position + Len(action.content)]
          ELSE s
  ELSE s

\* undoing an insert deletes its range, undoing a delete inserts its content
ApplyReverse(s, action) ==
  IF action.actionType = "insert"
  THEN LET res == Delete(s.rope, action.position,
                         action.position + Len(action.content))
       IN IF res.ok
          THEN [s EXCEPT !.rope = res.rope, !.cursorIdx = action.position]
          ELSE s
  ELSE IF action.actionType = "delete"
  THEN LET res == Insert(s.rope, action.position, action.content)
       IN IF res.ok
          THEN [s EXCEPT !.rope = res.rope,
                         !.cursorIdx = action.position + Len(action.content)]
          ELSE s
  ELSE s

\* ApplyForward with the cursor left where it is when a delete is redone
ApplyForwardCursorStays(s, action) ==
  IF action.actionType = "insert"
  THEN LET res == Insert(s.rope, action.position, action.content)
       IN IF res.ok
          THEN [s EXCEPT !.rope = res.rope,
                         !.cursorIdx = action.position + Len(action.content)]
          ELSE s
  ELSE IF action.actionType = "delete"
  THEN LET res == Delete(s.rope, action.position,
                         action.position + Len(action.content))
       IN IF res.ok THEN [s EXCEPT !.rope = res.rope] ELSE s
  ELSE s

\* performing an action again
ApplyForward(s, action) ==
  IF action.actionType = "insert"
  THEN LET res == Insert(s.rope, action.position, action.content)
       IN IF res.ok
          THEN [s EXCEPT !.rope = res.rope,
                         !.cursorIdx = action.position + Len(action.content)]
          ELSE s
  ELSE IF action.actionType = "delete"
  THEN LET res == Delete(s.rope, action.position,
                         action.position + Len(action.content))
       IN IF res.ok
          THEN [s EXCEPT !.rope = res.rope, !.cursorIdx = action.position]
          ELSE s
  ELSE s

\* handleUndo with the Action read from undoStack and left on it
handleUndoKeepsAction(s) ==
  IF Len(s.undoStack) = 0 THEN s
  ELSE LET action == s.undoStack[Len(s.undoStack)]
           s1 == ApplyReverse(s, action)
       IN updateCursorPosition([s1 EXCEPT !.redoStack = Append(@, action)])

handleUndo(s) ==
  IF Len(s.undoStack) = 0 THEN s
  ELSE LET action == s.undoStack[Len(s.undoStack)]
           popped == [s EXCEPT !.undoStack = SubSeq(@, 1, Len(@) - 1)]
           s1 == ApplyReverse(popped, action)
       IN updateCursorPosition([s1 EXCEPT !.redoStack = Append(@, action)])

handleRedo(s) ==
  IF Len(s.redoStack) = 0 THEN s
  ELSE LET action == s.redoStack[Len(s.redoStack)]
           popped == [s EXCEPT !.redoStack = SubSeq(@, 1, Len(@) - 1)]
           s1 == ApplyForward(popped, action)
       IN updateCursorPosition([s1 EXCEPT !.undoStack = Append(@, action)])

(***************************************************************************)
(* The state: the session global, where the key loop stands, the locals of *)
(* a running handleSearch, the status bar last drawn on the terminal, the  *)
(* content the session was started with and the locals of a running       *)
(* editorReadKeypress.                                                     *)
(***************************************************************************)
VARIABLES session, pc, srch, statusBar, initial, reader, rope, ops, heap

vars == << session, pc, srch, statusBar, initial, reader, rope, ops, heap >>

\* file contents the editor is started on: none, "a\n" and a text with a
\* byte above 0x7F
InitContents ==
  { << >>,
    << 97, NL >>,
    << 233 >> }

\* the printable keys typed
TypedKeys == { 97 }

\* bytes the key loops have no case for
OtherKeys == { 0, Esc }

\* the status line refreshScreen draws: the pending message, shown once, or
\* the file line with the cursor position
StatusLine(s) ==
  IF s.statusMessage # NoMessage
  THEN s.statusMessage
  ELSE Message("File", s.filename, s.cursorRow, s.cursorCol)

\* what refreshScreen leaves in the session
refreshScreen(s) == [s EXCEPT !.statusMessage = NoMessage]

\* no rope in memory
NoHeap == [nodes |-> << >>, refs |-> { }]

\* the locals of handleSearch and of the prompt that handleSearch or
\* handleSave runs
SrchIdle ==
  [prompt |-> "", oldCursorIdx |-> 0, input |-> << >>, query |-> << >>,
   numInstances |-> 0, searchFrom |-> 0, i |-> 0]

\* the locals of editorReadKeypress before its first read: the bytes the
\* callback has returned, how many reads there were, and the key returned
ReaderIdle ==
  [at |-> "first", firstByte |-> 0, secondByte |-> 0, thirdByte |-> 0,
   reads |-> 0, key |-> 0]

Init ==
  /\ \E c \in InitContents :
       /\ session = InitSession(NoName, c)
       /\ initial = [content |-> c, cursorIdx |-> 0]
  /\ pc = "main"
  /\ srch = SrchIdle
  /\ statusBar = StatusLine(session)
  /\ reader = ReaderIdle
  /\ rope = Nil
  /\ ops = 0
  /\ heap = NoHeap

\* the model stops recording edits at MaxHist actions
HistRoom(s) == Len(s.undoStack) + Len(s.redoStack) < MaxHist

\* one iteration of the loop of ProcessKeypress on key, for the keys whose
\* handler reads no further key: the session the handler leaves, and whether
\* refreshScreen follows.  Ctrl-Q, Ctrl-F and Ctrl-S are the actions KeyQuit,
\* KeyFind and KeySave.
ProcessKey(s, key) ==
  LET controlChar == ToByte(key)
      Drawn(h) == [drawn |-> TRUE, session |-> h]
  IN IF key = 0 THEN [drawn |-> FALSE, session |-> s]
     ELSE IF key >= 1000
     THEN Drawn(IF key \in { ArrowUp, ArrowDown, ArrowLeft, ArrowRight }
                THEN editorMoveCursor(s, key)
                ELSE s)
     ELSE IF controlChar = CtrlR THEN Drawn(handleRedo(s))
     ELSE IF controlChar = CtrlZ THEN Drawn(handleUndo(s))
     ELSE IF controlChar = Backspace THEN Drawn(handleBackspace(s))
     ELSE IF controlChar = Return THEN Drawn(handleInsert(s, << NL >>))
     ELSE IF isRegularCharacter(controlChar)
     THEN Drawn(handleInsert(s, ByteToString(controlChar)))
     ELSE [drawn |-> FALSE, session |-> s]

\* one iteration of ProcessKeypress whose handler is h and ends in
\* refreshScreen; the model lets no handler make the buffer longer than
\* MaxLen bytes
Handled(h) ==
  /\ pc = "main"
  /\ Length(h.rope) <= MaxLen \/ Length(h.rope) <= Length(session.rope)
  /\ session' = refreshScreen(h)
  /\ statusBar' = StatusLine(h)
  /\ UNCHANGED << pc, srch, initial, reader, rope, ops, heap >>

KeyArrow ==
  \E k \in { ArrowUp, ArrowDown, ArrowLeft, ArrowRight } :
    IF MoveCursorPanics(session, k)
    THEN /\ pc = "main"
         /\ pc' = "panic"
         /\ UNCHANGED << session, srch, statusBar, initial, reader, rope, ops, heap >>
    ELSE Handled(ProcessKey(session, k).session)

KeyInsert ==
  \E c \in TypedKeys :
    /\ isRegularCharacter(c)
    /\ Length(session.rope) = 0 \/ HistRoom(session)
    /\ Handled(ProcessKey(session, c).session)

KeyReturn ==
  /\ Length(session.rope) = 0 \/ HistRoom(session)
  /\ Handled(ProcessKey(session, Return).session)

KeyBackspace ==
  /\ session.cursorIdx = 0 \/ HistRoom(session)
  /\ Handled(ProcessKey(session, Backspace).session)

KeyUndo == Handled(ProcessKey(session, CtrlZ).session)

KeyRedo == Handled(ProcessKey(session, CtrlR).session)

\* key 0 (the read timed out) and the bytes the switch has no case for:
\* the loop reads the next key, nothing is drawn
KeyOther ==
  /\ pc = "main"
  /\ { k \in OtherKeys : /\ ~ProcessKey(session, k).drawn
                          /\ ProcessKey(session, k).session = session } # { }
  /\ UNCHANGED vars

KeyQuit ==
  /\ pc = "main"
  /\ pc' = "quit"
  /\ UNCHANGED << session, srch, statusBar, initial, reader, rope, ops, heap >>

(***************************************************************************)
(* handleSearch and handleSave.  They read keys themselves, in             *)
(* editorDrawPrompt and in the cycling loop of handleSearch, so they take  *)
(* one step per key read.                                                  *)
(***************************************************************************)
\* the line editorDrawPrompt draws on the status row
PromptLine(prompt, input) == Message(prompt, input, 0, 0)

SearchPrompt == "Search (Esc to cancel):"

SavePrompt == "Save as (Esc to cancel):"

\* what one key does to editorDrawPrompt: whether it returns, with which
\* result, and the input it goes on with
PromptStep(done, result, input) ==
  [done |-> done, result |-> result, input |-> input]

\* PromptKey with Esc returning what has been typed
PromptKeyEscKeepsInput(input, key) ==
  IF key = Return THEN PromptStep(TRUE, input, input)
  ELSE IF key = Esc THEN PromptStep(TRUE, input, input)
  ELSE IF key = Backspace
  THEN PromptStep(FALSE, << >>,
                  IF Len(input) > 0 THEN SubSeq(input, 1, Len(input) - 1)
                  ELSE input)
  ELSE IF key \in { 0, ArrowUp, ArrowDown, ArrowLeft, ArrowRight }
  THEN PromptStep(FALSE, << >>, input)
  ELSE IF isRegularCharacter(ToByte(key))
  THEN PromptStep(FALSE, << >>, input \o ByteToString(ToByte(key)))
  ELSE PromptStep(FALSE, << >>, input)

\* the switch on key of editorDrawPrompt
PromptKey(input, key) ==
  IF key = Return THEN PromptStep(TRUE, input, input)
  ELSE IF key = Esc THEN PromptStep(TRUE, << >>, input)
  ELSE IF key = Backspace
  THEN PromptStep(FALSE, << >>,
                  IF Len(input) > 0 THEN SubSeq(input, 1, Len(input) - 1)
                  ELSE input)
  ELSE IF key \in { 0, ArrowUp, ArrowDown, ArrowLeft, ArrowRight }
  THEN PromptStep(FALSE, << >>, input)
  ELSE IF isRegularCharacter(ToByte(key))
  THEN PromptStep(FALSE, << >>, input \o ByteToString(ToByte(key)))
  ELSE PromptStep(FALSE, << >>, input)

\* Ctrl-F: handleSearch saves the cursor and opens the prompt
KeyFind ==
  /\ pc = "main"
  /\ pc' = "prompt"
  /\ srch' = [SrchIdle EXCEPT !.prompt = SearchPrompt,
                              !.oldCursorIdx = session.cursorIdx]
  /\ statusBar' = PromptLine(SearchPrompt, << >>)
  /\ UNCHANGED << session, initial, reader, rope, ops, heap >>

\* SearchReturns with redoStack emptied, as after an edit
SearchReturnsDropsRedo(s) ==
  /\ pc' = "main"
  /\ srch' = SrchIdle
  /\ session' = refreshScreen([s EXCEPT !.redoStack = << >>])
  /\ statusBar' = StatusLine(s)
  /\ UNCHANGED << initial, reader, rope, ops, heap >>

\* handleSearch returns to ProcessKeypress, which draws the screen
SearchReturns(s) ==
  /\ pc' = "main"
  /\ srch' = SrchIdle
  /\ session' = refreshScreen(s)
  /\ statusBar' = StatusLine(s)
  /\ UNCHANGED << initial, reader, rope, ops, heap >>

\* text[searchFrom:] is out of range when searchFrom > len(text)
SlicePanics(s, sr) == sr.searchFrom > Len(String(s.rope))

\* the body of the cycling loop for the counter value i, up to its key read
SearchIteration(s, sr, i) ==
  LET text == String(s.rope)
      idx == StringsIndex(SliceFrom(text, sr.searchFrom), sr.query)
      cur == sr.searchFrom + idx
      s1 == updateCursorPosition([s EXCEPT !.cursorIdx = cur])
      s2 == [s1 EXCEPT !.statusMessage =
                          Message("Ctrl-n to next", << >>, i, sr.numInstances)]
  IN /\ pc' = "cycle"
     /\ srch' = [sr EXCEPT !.searchFrom = sr.searchFrom + cur + 1, !.i = i]
     /\ session' = refreshScreen(s2)
     /\ statusBar' = StatusLine(s2)
     /\ UNCHANGED << initial, reader, rope, ops, heap >>

SearchPanics ==
  /\ pc' = "panic"
  /\ UNCHANGED << session, srch, statusBar, initial, reader, rope, ops, heap >>

\* SearchWith with the cursor put at the start of the text when the query
\* is not found
SearchWithNotFoundToStart(query) ==
  IF query = << >>
  THEN SearchReturns([session EXCEPT
                        !.statusMessage = Message("Search canceled", << >>, 0, 0)])
  ELSE LET s1 == [session EXCEPT !.lastSearchQuery = query]
           n == StringsCount(String(s1.rope), query)
           sr == [srch EXCEPT !.input = << >>, !.query = query,
                              !.numInstances = n, !.searchFrom = 0]
       IN IF n = 0
          THEN SearchReturns([s1 EXCEPT
                                !.statusMessage = Message("Not found: ", query, 0, 0),
                                !.cursorIdx = 0])
          ELSE SearchIteration(s1, sr, 1)

\* SearchWith with lastSearchQuery saved before the query is looked at
SearchWithSavesFirst(query) ==
  LET s1 == [session EXCEPT !.lastSearchQuery = query]
  IN IF query = << >>
     THEN SearchReturns([s1 EXCEPT
                           !.statusMessage = Message("Search canceled", << >>, 0, 0)])
     ELSE LET n == StringsCount(String(s1.rope), query)
              sr == [srch EXCEPT !.input = << >>, !.query = query,
                                 !.numInstances = n, !.searchFrom = 0]
          IN IF n = 0
             THEN SearchReturns([s1 EXCEPT
                                   !.statusMessage = Message("Not found: ", query, 0, 0),
                                   !.cursorIdx = srch.oldCursorIdx])
             ELSE SearchIteration(s1, sr, 1)

\* handleSearch from the return of editorDrawPrompt to its first key read
SearchWith(query) ==
  IF query = << >>
  THEN SearchReturns([session EXCEPT
                        !.statusMessage = Message("Search canceled", << >>, 0, 0)])
  ELSE LET s1 == [session EXCEPT !.lastSearchQuery = query]
           n == StringsCount(String(s1.rope), query)
           sr == [srch EXCEPT !.input = << >>, !.query = query,
                              !.numInstances = n, !.searchFrom = 0]
       IN IF n = 0
          THEN SearchReturns([s1 EXCEPT
                                !.statusMessage = Message("Not found: ", query, 0, 0),
                                !.cursorIdx = srch.oldCursorIdx])
          ELSE SearchIteration(s1, sr, 1)

\* the write of handleSave, of which err tells whether os.WriteFile failed
handleSaveWrite(s, err) ==
  IF err
  THEN [s EXCEPT !.statusMessage = Message("Error saving file", << >>, 0, 0)]
  ELSE [s EXCEPT !.statusMessage =
                   Message("Saved", s.filename, Len(String(s.rope)), 0)]

\* handleSave returns to ProcessKeypress, which draws the screen
SaveReturns(s) ==
  /\ pc' = "main"
  /\ srch' = SrchIdle
  /\ session' = refreshScreen(s)
  /\ statusBar' = StatusLine(s)
  /\ UNCHANGED << initial, reader, rope, ops, heap >>

\* handleSave from the return of editorDrawPrompt on
SaveWith(filename) ==
  IF filename = << >>
  THEN SaveReturns([session EXCEPT
                      !.statusMessage = Message("Save canceled", << >>, 0, 0)])
  ELSE \E err \in BOOLEAN :
         SaveReturns(handleSaveWrite([session EXCEPT !.filename = filename], err))

\* Ctrl-S: handleSave asks for a name when the session has none, and writes
KeySave ==
  /\ pc = "main"
  /\ IF session.filename = NoName
     THEN /\ pc' = "prompt"
          /\ srch' = [SrchIdle EXCEPT !.prompt = SavePrompt]
          /\ statusBar' = PromptLine(SavePrompt, << >>)
          /\ UNCHANGED << session, initial, reader, rope, ops, heap >>
     ELSE \E err \in BOOLEAN : SaveReturns(handleSaveWrite(session, err))

\* editorDrawPrompt returns result to the handler that has called it
PromptReturns(result) ==
  IF srch.prompt = SavePrompt THEN SaveWith(result) ELSE SearchWith(result)

PromptReturn ==
  /\ pc = "prompt"
  /\ PromptReturns(PromptKey(srch.input, Return).result)

PromptEsc ==
  /\ pc = "prompt"
  /\ PromptReturns(PromptKey(srch.input, Esc).result)

PromptBackspace ==
  /\ pc = "prompt"
  /\ srch' = [srch EXCEPT !.input = PromptKey(srch.input, Backspace).input]
  /\ statusBar' = PromptLine(srch.prompt, srch'.input)
  /\ UNCHANGED << session, pc, initial, reader, rope, ops, heap >>

\* a printable key is appended to the input
PromptType ==
  \E k \in TypedKeys :
    /\ pc = "prompt"
    /\ isRegularCharacter(ToByte(k))
    /\ Len(srch.input) < MaxQuery
    /\ srch' = [srch EXCEPT !.input = PromptKey(srch.input, k).input]
    /\ statusBar' = PromptLine(srch.prompt, srch'.input)
    /\ UNCHANGED << session, pc, initial, reader, rope, ops, heap >>

\* timeouts, arrows and bytes that are not printable leave the input alone
PromptOther ==
  /\ pc = "prompt"
  /\ { k \in { 0, CtrlN, ArrowUp } :
         PromptKey(srch.input, k) = PromptStep(FALSE, << >>, srch.input) } # { }
  /\ UNCHANGED vars

\* CycleNext with the loop starting again at the first match when it is over
CycleNextWraps ==
  /\ pc = "cycle"
  /\ IF SlicePanics(session, srch)
     THEN SearchPanics
     ELSE IF srch.i + 1 <= srch.numInstances
     THEN SearchIteration(session, srch, srch.i + 1)
     ELSE SearchIteration(session, [srch EXCEPT !.searchFrom = 0], 1)

\* Ctrl-N: the loop goes on to the next value of i, or is over
CycleNext ==
  /\ pc = "cycle"
  /\ IF srch.i + 1 <= srch.numInstances
     THEN IF SlicePanics(session, srch)
          THEN SearchPanics
          ELSE SearchIteration(session, srch, srch.i + 1)
     ELSE SearchReturns(session)

\* a printable key ends the search
CycleStop ==
  \E k \in TypedKeys :
    /\ pc = "cycle"
    /\ k # CtrlN
    /\ isRegularCharacter(ToByte(k))
    /\ SearchReturns(session)

\* any other key: goto Timeout, the next key is read
CycleOther ==
  /\ pc = "cycle"
  /\ { k \in OtherKeys \cup { Return, Backspace, ArrowUp } :
         k # CtrlN /\ ~isRegularCharacter(ToByte(k)) } # { }
  /\ UNCHANGED vars

(***************************************************************************)
(* The specifications                                                      *)
(***************************************************************************)
\* the key loop of ProcessKeypress; Ctrl-S, which changes neither the
\* buffer nor the cursor nor the stacks, is in SpecSave
Next ==
  \/ KeyArrow
  \/ KeyInsert
  \/ KeyReturn
  \/ KeyBackspace
  \/ KeyUndo
  \/ KeyRedo
  \/ KeyOther
  \/ KeyQuit
  \/ KeyFind
  \/ PromptReturn
  \/ PromptEsc
  \/ PromptBackspace
  \/ PromptType
  \/ PromptOther
  \/ CycleNext
  \/ CycleStop
  \/ CycleOther

Spec == Init /\ [][Next]_vars

\* a session that only edits: started with the cursor anywhere in the
\* text, it gets inserts, backspaces, undos and redos and no other key
InitEdits ==
  /\ \E c \in InitContents :
       \E k \in 0..Len(c) :
         /\ session = updateCursorPosition(
                        [InitSession(NoName, c) EXCEPT !.cursorIdx = k])
         /\ initial = [content |-> c, cursorIdx |-> k]
  /\ pc = "main"
  /\ srch = SrchIdle
  /\ statusBar = StatusLine(session)
  /\ reader = ReaderIdle
  /\ rope = Nil
  /\ ops = 0
  /\ heap = NoHeap

NextEdits ==
  \/ KeyInsert
  \/ KeyReturn
  \/ KeyBackspace
  \/ KeyUndo
  \/ KeyRedo

SpecEdits == InitEdits /\ [][NextEdits]_vars

\* the key loop without Ctrl-F: the keys that edit and the keys that move
NextEditing ==
  \/ KeyArrow
  \/ KeyInsert
  \/ KeyReturn
  \/ KeyBackspace
  \/ KeyUndo
  \/ KeyRedo
  \/ KeyOther
  \/ KeyQuit

SpecEditing == Init /\ [][NextEditing]_vars

\* texts to move in: every text of 'a' and line breaks up to MaxText bytes
NavTexts == UNION { [1..n -> { 97, NL }] : n \in 0..MaxText }

\* a session that only moves the cursor: started on a text, it gets the
\* arrow keys and the keys that change nothing
InitNav ==
  /\ \E c \in NavTexts :
       /\ session = InitSession(NoName, c)
       /\ initial = [content |-> c, cursorIdx |-> 0]
  /\ pc = "main"
  /\ srch = SrchIdle
  /\ statusBar = StatusLine(session)
  /\ reader = ReaderIdle
  /\ rope = Nil
  /\ ops = 0
  /\ heap = NoHeap

NextNav ==
  \/ KeyArrow
  \/ KeyOther
  \/ KeyQuit

SpecNav == InitNav /\ [][NextNav]_vars

\* texts to search in: every text of 'a' and 'b' up to MaxText bytes, and
\* one of two lines
SearchTexts ==
  UNION { [1..n -> { 97, 98 }] : n \in 0..MaxText } \cup { << 97, NL, 97 >> }

\* a session that only searches: started on a text with the cursor anywhere
\* in it, it gets Ctrl-F and the keys handleSearch reads
InitSearch ==
  /\ \E c \in SearchTexts :
       \E k \in 0..Len(c) :
         /\ session = updateCursorPosition(
                        [InitSession(NoName, c) EXCEPT !.cursorIdx = k])
         /\ initial = [content |-> c, cursorIdx |-> k]
  /\ pc = "main"
  /\ srch = SrchIdle
  /\ statusBar = StatusLine(session)
  /\ reader = ReaderIdle
  /\ rope = Nil
  /\ ops = 0
  /\ heap = NoHeap

NextSearch ==
  \/ KeyFind
  \/ PromptReturn
  \/ PromptEsc
  \/ PromptBackspace
  \/ PromptType
  \/ PromptOther
  \/ CycleNext
  \/ CycleStop
  \/ CycleOther

SpecSearch == InitSearch /\ [][NextSearch]_vars

\* the search with a key source that, while handleSearch waits in its
\* cycling loop, delivers Ctrl-N or a printable key in the end
SpecSearchKeys ==
  InitSearch /\ [][NextSearch]_vars /\ WF_vars(CycleNext \/ CycleStop)

\* the key loop with the keys that edit and Ctrl-F: searches in sessions
\* that have edits on undoStack and redoStack
NextFind ==
  \/ KeyInsert
  \/ KeyReturn
  \/ KeyBackspace
  \/ KeyUndo
  \/ KeyRedo
  \/ KeyFind
  \/ PromptReturn
  \/ PromptEsc
  \/ PromptBackspace
  \/ PromptType
  \/ PromptOther
  \/ CycleNext
  \/ CycleStop
  \/ CycleOther

SpecFind == Init /\ [][NextFind]_vars

\* the names a session starts with: none, or the one of the file it was
\* given ("f")
SaveNames == { NoName, << 102 >> }

\* a session started with or without a file name
InitSave ==
  /\ \E c \in InitContents, f \in SaveNames :
       /\ session = InitSession(f, c)
       /\ initial = [content |-> c, cursorIdx |-> 0]
  /\ pc = "main"
  /\ srch = SrchIdle
  /\ statusBar = StatusLine(session)
  /\ reader = ReaderIdle
  /\ rope = Nil
  /\ ops = 0
  /\ heap = NoHeap

\* the key loop with the keys that edit and Ctrl-S, and the prompt for the
\* file name
NextSave ==
  \/ KeyInsert
  \/ KeyReturn
  \/ KeyBackspace
  \/ KeyUndo
  \/ KeyRedo
  \/ KeySave
  \/ PromptReturn
  \/ PromptEsc
  \/ PromptBackspace
  \/ PromptType
  \/ PromptOther

SpecSave == InitSave /\ [][NextSave]_vars

(***************************************************************************)
(* editorReadKeypress.  It calls the callback up to three times, so it     *)
(* takes one step per call.                                                *)
(***************************************************************************)
\* what the callback returns: 0 when the read timed out, or a byte of the
\* terminal: Return, Esc, 'A'..'E', 'O', '[', 'a', Backspace
KeyBytes == { 0, Return, Esc, 65, 66, 67, 68, 69, 79, 91, 97, Backspace }

\* ArrowOf with the keys of 'C' and 'D' exchanged
ArrowOfLeftRightSwapped(thirdByte) ==
  CASE thirdByte = 65 -> ArrowUp
    [] thirdByte = 66 -> ArrowDown
    [] thirdByte = 67 -> ArrowLeft
    [] thirdByte = 68 -> ArrowRight
    [] OTHER -> Esc

\* the switch on thirdByte of an ESC '[' sequence, and the return behind it
ArrowOf(thirdByte) ==
  CASE thirdByte = 65 -> ArrowUp
    [] thirdByte = 66 -> ArrowDown
    [] thirdByte = 67 -> ArrowRight
    [] thirdByte = 68 -> ArrowLeft
    [] OTHER -> Esc

\* editorReadKeypress returns key
ReaderReturns(rd, key) == [rd EXCEPT !.at = "done", !.key = key]

\* firstByte := callback()
ReadFirst ==
  \E b \in KeyBytes :
    /\ reader.at = "first"
    /\ LET rd == [reader EXCEPT !.firstByte = b, !.reads = @ + 1]
       IN reader' = IF b = 0 THEN ReaderReturns(rd, 0)
                    ELSE IF b # Esc THEN ReaderReturns(rd, b)
                    ELSE [rd EXCEPT !.at = "second"]
    /\ UNCHANGED << session, pc, srch, statusBar, initial, rope, ops, heap >>

\* secondByte := callback()
ReadSecond ==
  \E b \in KeyBytes :
    /\ reader.at = "second"
    /\ LET rd == [reader EXCEPT !.secondByte = b, !.reads = @ + 1]
       IN reader' = IF b = 0 THEN ReaderReturns(rd, Esc)
                    ELSE [rd EXCEPT !.at = "third"]
    /\ UNCHANGED << session, pc, srch, statusBar, initial, rope, ops, heap >>

\* thirdByte := callback()
ReadThird ==
  \E b \in KeyBytes :
    /\ reader.at = "third"
    /\ LET rd == [reader EXCEPT !.thirdByte = b, !.reads = @ + 1]
       IN reader' = IF b = 0 THEN ReaderReturns(rd, Esc)
                    ELSE IF rd.secondByte = 91 THEN ReaderReturns(rd, ArrowOf(b))
                    ELSE ReaderReturns(rd, Esc)
    /\ UNCHANGED << session, pc, srch, statusBar, initial, rope, ops, heap >>

\* one call of editorReadKeypress on a session just started
InitKeys ==
  /\ session = InitSession(NoName, << >>)
  /\ initial = [content |-> << >>, cursorIdx |-> 0]
  /\ pc = "main"
  /\ srch = SrchIdle
  /\ statusBar = StatusLine(session)
  /\ reader = ReaderIdle
  /\ rope = Nil
  /\ ops = 0
  /\ heap = NoHeap

NextKeys ==
  \/ ReadFirst
  \/ ReadSecond
  \/ ReadThird

SpecKeys == InitKeys /\ [][NextKeys]_vars

(***************************************************************************)
(* The rope on its own: a rope built by NewRope and the ropes the          *)
(* operations of rope.go make of it, each result being the next rope.      *)
(***************************************************************************)
\* strings ropes are built from: "", "a", "abc", and "hello world", which
\* is longer than a leaf
RopeStrings ==
  { << >>, << 97 >>, << 97, 98, 99 >>,
    << 104, 101, 108, 108, 111, 32, 119, 111, 114, 108, 100 >> }

\* strings that are inserted: "" and "X"
RopeInserts == { << >>, << 88 >> }

InitRope ==
  /\ session = InitSession(NoName, << >>)
  /\ initial = [content |-> << >>, cursorIdx |-> 0]
  /\ pc = "main"
  /\ srch = SrchIdle
  /\ statusBar = StatusLine(session)
  /\ reader = ReaderIdle
  /\ \E s \in RopeStrings : rope = NewRope(s)
  /\ ops = 0
  /\ heap = NoHeap

\* the rope r is the next rope; the model stops after MaxOps operations
RopeBecomes(r) ==
  /\ ops < MaxOps
  /\ ops' = ops + 1
  /\ rope' = r
  /\ UNCHANGED << session, pc, srch, statusBar, initial, reader, heap >>

\* offsets the operations are given: the ends of the rope, one byte from
\* each end, the middle, and one offset out of range
Offsets(length) ==
  { i \in { -1, 0, 1, length \div 2, length - 1, length } : i >= -1 }

\* r, err := r.Insert(i, s), the caller keeping r when there is an error
RopeInsert ==
  \E i \in Offsets(Length(rope)), s \in RopeInserts :
    LET res == Insert(rope, i, s)
    IN RopeBecomes(IF res.ok THEN res.rope ELSE rope)

RopeDelete ==
  \E start \in Offsets(Length(rope)), end \in Offsets(Length(rope)) :
    LET res == Delete(rope, start, end)
    IN RopeBecomes(IF res.ok THEN res.rope ELSE rope)

\* left, right, err := r.Split(i), going on with left or with right
RopeSplit ==
  \E i \in Offsets(Length(rope)), side \in { "left", "right" } :
    LET sp == Split(rope, i)
    IN RopeBecomes(IF ~sp.ok THEN rope
                   ELSE IF side = "left" THEN sp.left ELSE sp.right)

\* Concat of the rope and a new rope, or of the rope and itself
RopeConcat ==
  \E other \in { rope } \cup { NewRope(s) : s \in RopeInserts } :
    \/ RopeBecomes(Concat(rope, other))
    \/ RopeBecomes(Concat(other, rope))

RopeRebalance == RopeBecomes(Rebalance(rope))

NextRope ==
  \/ RopeInsert
  \/ RopeDelete
  \/ RopeSplit
  \/ RopeConcat
  \/ RopeRebalance

SpecRope == InitRope /\ [][NextRope]_vars

(***************************************************************************)
(* The ropes in memory: heap.nodes is the memory and heap.refs the ropes   *)
(* the caller holds, which are the rope NewRope has built and every        *)
(* result of an operation.  An operation is applied to any rope held.      *)
(***************************************************************************)
InitHeap ==
  /\ session = InitSession(NoName, << >>)
  /\ initial = [content |-> << >>, cursorIdx |-> 0]
  /\ pc = "main"
  /\ srch = SrchIdle
  /\ statusBar = StatusLine(session)
  /\ reader = ReaderIdle
  /\ rope = Nil
  /\ ops = 0
  /\ \E s \in RopeStrings :
       heap = [nodes |-> HNewRope(<< >>, s).nodes,
               refs |-> { HNewRope(<< >>, s).ref }]

\* an operation has left the memory nodes and has returned the ropes
\* results; the model stops after MaxOps operations
HeapBecomes(nodes, results) ==
  /\ ops < MaxOps
  /\ ops' = ops + 1
  /\ heap' = [nodes |-> nodes, refs |-> heap.refs \cup results]
  /\ UNCHANGED << session, pc, srch, statusBar, initial, reader, rope >>

HeapInsert ==
  \E r \in heap.refs, s \in RopeInserts :
    \E i \in Offsets(HLength(heap.nodes, r)) :
      LET res == HInsert(heap.nodes, r, i, s)
      IN HeapBecomes(res.nodes, IF res.ok THEN { res.ref } ELSE { })

HeapDelete ==
  \E r \in heap.refs :
    \E start \in Offsets(HLength(heap.nodes, r)),
       end \in Offsets(HLength(heap.nodes, r)) :
      LET res == HDelete(heap.nodes, r, start, end)
      IN HeapBecomes(res.nodes, IF res.ok THEN { res.ref } ELSE { })

HeapSplit ==
  \E r \in heap.refs :
    \E i \in Offsets(HLength(heap.nodes, r)) :
      LET sp == HSplit(heap.nodes, r, i)
      IN HeapBecomes(sp.nodes, IF sp.ok THEN { sp.left, sp.right } ELSE { })

HeapSubstring ==
  \E r \in heap.refs :
    \E start \in Offsets(HLength(heap.nodes, r)),
       end \in Offsets(HLength(heap.nodes, r)) :
      HeapBecomes(HSubstring(heap.nodes, r, start, end).nodes, { })

HeapConcat ==
  \E r1 \in heap.refs, r2 \in heap.refs :
    LET c == HConcat(heap.nodes, r1, r2)
    IN HeapBecomes(c.nodes, { c.ref })

\* Index allocates nothing and returns no rope
HeapIndex ==
  \E r \in heap.refs :
    \E i \in Offsets(HLength(heap.nodes, r)) :
      /\ HIndex(heap.nodes, r, i) \in [ok : BOOLEAN, byte : 0..255]
      /\ HeapBecomes(heap.nodes, { })

HeapRebalance ==
  \E r \in heap.refs :
    LET res == HRebalance(heap.nodes, r)
    IN HeapBecomes(res.nodes, { res.ref })

NextHeap ==
  \/ HeapInsert
  \/ HeapDelete
  \/ HeapSplit
  \/ HeapSubstring
  \/ HeapConcat
  \/ HeapIndex
  \/ HeapRebalance

SpecHeap == InitHeap /\ [][NextHeap]_vars

(***************************************************************************)
(* The claims.  A claim about one handler is stated of the handler's       *)
(* result in every state the key loop reaches.                             *)
(***************************************************************************)
\* strings handed to handleInsert: "a", "\n", " w" and a text longer than a
\* leaf
InsertStrings ==
  { << 97 >>, << NL >>, << 32, 119 >>,
    << 104, 101, 108, 108, 111, 32, 119, 111, 114, 108, 100 >> }

\* C1: in every state edits lead to and whose undoStack is not empty,
\* handleUndo followed by handleRedo leaves the text of the buffer and
\* cursorIdx as they were before the undo.
C1_UndoRedoRestores ==
  (pc = "main" /\ Len(session.undoStack) > 0) =>
    LET r == handleRedo(handleUndo(session))
    IN /\ String(r.rope) = String(session.rope)
       /\ r.cursorIdx = session.cursorIdx

\* C2: after any inserts and backspaces, one handleUndo for each of them
\* (as many as undoStack holds, the others doing nothing) gives back the
\* text and the cursor offset the session started with.
C2_UndoAllRestoresInitial ==
  (pc = "main" /\ Len(session.redoStack) = 0) =>
    LET RECURSIVE UndoTimes(_, _)
        UndoTimes(s, n) == IF n = 0 THEN s ELSE UndoTimes(handleUndo(s), n - 1)
        u == UndoTimes(session, Len(session.undoStack))
    IN /\ String(u.rope) = initial.content
       /\ u.cursorIdx = initial.cursorIdx

\* C3: redoStack is empty after every handleInsert and handleBackspace that
\* changes the text; handleUndo adds exactly the undone Action to redoStack
\* and handleRedo takes exactly the top Action off it.
C3_RedoStackDiscipline ==
  pc = "main" =>
    /\ \A str \in InsertStrings :
         LET t == handleInsert(session, str)
         IN String(t.rope) # String(session.rope) => t.redoStack = << >>
    /\ LET t == handleBackspace(session)
       IN String(t.rope) # String(session.rope) => t.redoStack = << >>
    /\ Len(session.undoStack) > 0 =>
         handleUndo(session).redoStack =
           Append(session.redoStack, session.undoStack[Len(session.undoStack)])
    /\ Len(session.redoStack) > 0 =>
         handleRedo(session).redoStack =
           SubSeq(session.redoStack, 1, Len(session.redoStack) - 1)

\* C3 witness: an undone Action waits on redoStack and the buffer holds text,
\* so that an edit, an undo and a redo all have their effect on redoStack
C3_Witness ==
  /\ pc = "main"
  /\ Len(session.redoStack) > 0
  /\ Len(session.undoStack) > 0
  /\ Length(session.rope) > 0
  /\ session.cursorIdx > 0

\* C4: 0 <= cursorIdx <= Length(buffer) in every state the key loop reaches.
C4_CursorInRange ==
  /\ 0 <= session.cursorIdx
  /\ session.cursorIdx <= Length(session.rope)

\* C4 witness: after edits, an undo and a search the cursor stands at the
\* end of the text
C4_Witness ==
  /\ pc = "main"
  /\ session.lastSearchQuery # << >>
  /\ Len(session.redoStack) > 0
  /\ session.cursorIdx = Length(session.rope)
  /\ session.cursorIdx > 1

\* C5: cursorRow is 1 plus the number of line breaks before cursorIdx, and
\* cursorCol is 1 plus the number of bytes between the last of them (or the
\* start of the text) and cursorIdx.
C5_RowColFollowCursor ==
  LET text == String(session.rope)
      idx == session.cursorIdx
  IN /\ idx \in 0..Len(text)
     /\ LET breaks == { j \in 1..idx : text[j] = NL }
            last == IF breaks = {} THEN 0
                    ELSE CHOOSE j \in breaks : \A k \in breaks : k <= j
        IN /\ session.cursorRow = 1 + Cardinality(breaks)
           /\ session.cursorCol = idx - last + 1

\* C5 witness: the cursor stands on the second row behind a byte
C5_Witness ==
  /\ session.cursorRow = 2
  /\ session.cursorCol = 2
  /\ Len(session.undoStack) > 0

\* C6: on a buffer that is not empty, handleInsert(str) puts str at
\* cursorIdx, moves cursorIdx behind it, pushes the insert Action of that
\* position and content on undoStack and empties redoStack.
C6_InsertIntoText ==
  (pc = "main" /\ Length(session.rope) > 0) =>
    \A str \in InsertStrings :
      LET old == String(session.rope)
          c == session.cursorIdx
          t == handleInsert(session, str)
      IN /\ String(t.rope) = SubSeq(old, 1, c) \o str \o SubSeq(old, c + 1, Len(old))
         /\ t.cursorIdx = c + Len(str)
         /\ t.undoStack = Append(session.undoStack, MkAction("insert", c, str))
         /\ t.redoStack = << >>

\* C6 witness: the key loop has inserted a byte in front of a text
C6_Witness ==
  /\ pc = "main"
  /\ Len(session.undoStack) > 0
  /\ session.redoStack = << >>
  /\ LET a == session.undoStack[Len(session.undoStack)]
     IN /\ a.actionType = "insert"
        /\ session.cursorIdx = a.position + Len(a.content)
        /\ Length(session.rope) > session.cursorIdx

\* C7: on an empty buffer (no rope, or a rope of length 0) handleInsert(str)
\* makes the buffer the rope NewRope(str), leaves undoStack as it is, adds
\* len(str) to cursorIdx and computes row and column anew.
C7_InsertIntoEmpty ==
  (pc = "main" /\ (session.rope = Nil \/ Length(session.rope) = 0)) =>
    \A str \in InsertStrings :
      LET t == handleInsert(session, str)
      IN /\ t.rope = NewRope(str)
         /\ t.undoStack = session.undoStack
         /\ t.cursorIdx = session.cursorIdx + Len(str)
         /\ << t.cursorRow, t.cursorCol >> =
              WalkRowCol(str, 0, t.cursorIdx, 1, 1)

\* C7 witness: the buffer has been emptied by a backspace that undoStack
\* holds, and is absent
C7_Witness ==
  /\ pc = "main"
  /\ session.rope = Nil
  /\ Len(session.undoStack) > 0

\* C8: handleBackspace changes nothing at cursorIdx 0; at cursorIdx c > 0 it
\* removes the byte at c-1, pushes the delete Action of position c-1 whose
\* content is that byte, empties redoStack and sets cursorIdx to c-1.
C8_BackspaceRemovesByte ==
  pc = "main" =>
    LET old == String(session.rope)
        c == session.cursorIdx
        t == handleBackspace(session)
    IN IF c = 0 THEN t = session
       ELSE /\ String(t.rope) = SubSeq(old, 1, c - 1) \o SubSeq(old, c + 1, Len(old))
            /\ t.undoStack =
                 Append(session.undoStack, MkAction("delete", c - 1, << old[c] >>))
            /\ t.redoStack = << >>
            /\ t.cursorIdx = c - 1

\* C9: handleUndo changes nothing on an empty undoStack; otherwise it takes
\* the top Action off undoStack, takes an insert's range out of the text and
\* puts the cursor at its position, or puts a delete's content back and
\* the cursor behind it, and pushes the Action on redoStack.
C9_UndoAppliesInverse ==
  pc = "main" =>
    LET old == String(session.rope)
        n == Len(session.undoStack)
        u == handleUndo(session)
    IN IF n = 0 THEN u = session
       ELSE LET a == session.undoStack[n]
                p == a.position
                k == Len(a.content)
            IN /\ u.undoStack = SubSeq(session.undoStack, 1, n - 1)
               /\ u.redoStack = Append(session.redoStack, a)
               /\ Len(u.undoStack) + Len(u.redoStack) =
                    Len(session.undoStack) + Len(session.redoStack)
               /\ a.actionType = "insert" =>
                    /\ p + k <= Len(old)
                    /\ String(u.rope) =
                         SubSeq(old, 1, p) \o SubSeq(old, p + k + 1, Len(old))
                    /\ u.cursorIdx = p
               /\ a.actionType = "delete" =>
                    /\ p <= Len(old)
                    /\ String(u.rope) =
                         SubSeq(old, 1, p) \o a.content \o SubSeq(old, p + 1, Len(old))
                    /\ u.cursorIdx = p + k

\* C9 witness: an insert and a delete are on undoStack, the delete on top
C9_Witness ==
  /\ pc = "main"
  /\ Len(session.undoStack) = 2
  /\ session.undoStack[1].actionType = "insert"
  /\ session.undoStack[2].actionType = "delete"

\* C10: handleRedo changes nothing on an empty redoStack; otherwise it takes
\* the top Action off redoStack, puts an insert's content back at its
\* position and the cursor behind it, or takes a delete's range out and
\* puts the cursor at its position, and pushes the Action on undoStack.
C10_RedoAppliesForward ==
  pc = "main" =>
    LET old == String(session.rope)
        n == Len(session.redoStack)
        r == handleRedo(session)
    IN IF n = 0 THEN r = session
       ELSE LET a == session.redoStack[n]
                p == a.position
                k == Len(a.content)
            IN /\ r.redoStack = SubSeq(session.redoStack, 1, n - 1)
               /\ r.undoStack = Append(session.undoStack, a)
               /\ a.actionType = "insert" =>
                    /\ p <= Len(old)
                    /\ String(r.rope) =
                         SubSeq(old, 1, p) \o a.content \o SubSeq(old, p + 1, Len(old))
                    /\ r.cursorIdx = p + k
               /\ a.actionType = "delete" =>
                    /\ p + k <= Len(old)
                    /\ String(r.rope) =
                         SubSeq(old, 1, p) \o SubSeq(old, p + k + 1, Len(old))
                    /\ r.cursorIdx = p

\* C10 witness: two undone Actions wait on redoStack, an insert on top
C10_Witness ==
  /\ pc = "main"
  /\ Len(session.redoStack) = 2
  /\ session.redoStack[2].actionType = "insert"
  /\ session.redoStack[1].actionType = "delete"

\* C11: no step of a handleSearch call, from Ctrl-F through the prompt and
\* the cycling to its return (canceled, not found, stopped or through the
\* matches), changes the buffer, undoStack or redoStack.
C11_SearchReadOnly ==
  [][(pc \in { "prompt", "cycle" } \/ pc' \in { "prompt", "cycle" }) =>
       /\ session'.rope = session.rope
       /\ session'.undoStack = session.undoStack
       /\ session'.redoStack = session.redoStack]_vars

\* C11 witness: a search has returned in a session that has text, an Action
\* on undoStack and an Action on redoStack
C11_Witness ==
  /\ pc = "main"
  /\ session.lastSearchQuery # << >>
  /\ Length(session.rope) > 0
  /\ Len(session.undoStack) > 0
  /\ Len(session.redoStack) > 0

\* the offsets of the occurrences of query in text that a scan from the left
\* finds when it goes on behind each occurrence it has found
RECURSIVE OccurrencesFrom(_, _, _)
OccurrencesFrom(text, query, from) ==
  IF from + Len(query) > Len(text) THEN << >>
  ELSE IF SubSeq(text, from + 1, from + Len(query)) = query
       THEN << from >> \o OccurrencesFrom(text, query, from + Len(query))
       ELSE OccurrencesFrom(text, query, from + 1)

Occurrences(text, query) == OccurrencesFrom(text, query, 0)

\* C12: at step i of the cycling (after i-1 presses of Ctrl-N) cursorIdx is
\* the offset of the i-th occurrence of the query, of the N occurrences a
\* scan from the left finds that do not overlap, and the status bar shows
\* i/N.
C12_CycleVisitsOccurrences ==
  pc = "cycle" =>
    LET occ == Occurrences(String(session.rope), srch.query)
    IN /\ srch.i \in 1..Len(occ)
       /\ session.cursorIdx = occ[srch.i]
       /\ statusBar = Message("Ctrl-n to next", << >>, srch.i, Len(occ))

\* C13 as the specification states it: Ctrl-N at the last step of the
\* cycling, i = N, moves the cursor to the first occurrence again and the
\* search goes on waiting for a key.
C13_NextWrapsAfterLast ==
  [][(CycleNext /\ srch.i = srch.numInstances) =>
       /\ pc' = "cycle"
       /\ session'.cursorIdx =
            Occurrences(String(session.rope), srch.query)[1]]_vars

\* C13 as amended: Ctrl-N at the last step of the cycling, i = N, ends the
\* search: handleSearch returns to the key loop and the cursor stays where
\* the last step has put it.
C13_NextEndsAfterLast ==
  [][(CycleNext /\ srch.i = srch.numInstances) =>
       /\ pc' = "main"
       /\ srch' = SrchIdle
       /\ session'.cursorIdx = session.cursorIdx
       /\ session'.cursorRow = session.cursorRow
       /\ session'.cursorCol = session.cursorCol]_vars

\* C13 witness: a search for a query that occurs twice or more is over and
\* the cursor stands on the last occurrence, not the first
C13_Witness ==
  /\ pc = "main"
  /\ session.lastSearchQuery # << >>
  /\ LET occ == Occurrences(String(session.rope), session.lastSearchQuery)
     IN /\ Len(occ) >= 2
        /\ session.cursorIdx = occ[Len(occ)]
  /\ session.cursorIdx # initial.cursorIdx

\* C14: a printable key other than Ctrl-N ends the cycling at once:
\* handleSearch returns to the key loop without another read, and cursorIdx
\* is left at the offset shown at that step, which is the offset of an
\* occurrence of the query.
C14_RegularKeyStops ==
  [][CycleStop =>
       /\ pc' = "main"
       /\ srch' = SrchIdle
       /\ session'.cursorIdx = session.cursorIdx
       /\ SubSeq(String(session'.rope), session'.cursorIdx + 1,
                 session'.cursorIdx + Len(srch.query)) = srch.query]_vars

\* C15: when the query does not occur in the text, handleSearch returns
\* with "Not found" and the query on the status bar and with cursorIdx and
\* the buffer as they were before the search.
C15_NotFoundRestores ==
  [][(PromptReturn /\ srch.input # << >>
        /\ Occurrences(String(session.rope), srch.input) = << >>) =>
       /\ pc' = "main"
       /\ statusBar' = Message("Not found: ", srch.input, 0, 0)
       /\ session'.cursorIdx = srch.oldCursorIdx
       /\ session'.cursorIdx = session.cursorIdx
       /\ session'.rope = session.rope]_vars

\* C15 witness: a search has ended with "Not found" in a session whose
\* cursor is not at the start of its text
C15_Witness ==
  /\ pc = "main"
  /\ statusBar.msg = "Not found: "
  /\ statusBar.query = session.lastSearchQuery
  /\ session.cursorIdx > 0

\* C16: when the prompt gives the empty query (Esc, or Return with nothing
\* typed), handleSearch returns with "Search canceled" on the status bar and
\* with cursorIdx, cursorRow, cursorCol and lastSearchQuery unchanged.
C16_CancelKeepsCursor ==
  [][(PromptEsc \/ (PromptReturn /\ srch.input = << >>)) =>
       /\ pc' = "main"
       /\ statusBar'.msg = "Search canceled"
       /\ session'.cursorIdx = session.cursorIdx
       /\ session'.cursorRow = session.cursorRow
       /\ session'.cursorCol = session.cursorCol
       /\ session'.lastSearchQuery = session.lastSearchQuery]_vars

\* C16 witness: a search has been canceled in a session that has searched
\* before and whose cursor is not at the start of its text
C16_Witness ==
  /\ pc = "main"
  /\ statusBar.msg = "Search canceled"
  /\ session.lastSearchQuery # << >>
  /\ session.cursorIdx > 0


\* the lines of a text: the bytes between its line breaks
RECURSIVE TextLines(_)
TextLines(text) ==
  IF \A j \in 1..Len(text) : text[j] # NL THEN << text >>
  ELSE LET k == CHOOSE j \in 1..Len(text) :
                  text[j] = NL /\ \A m \in 1..(j - 1) : text[m] # NL
       IN << SubSeq(text, 1, k - 1) >>
            \o TextLines(SubSeq(text, k + 1, Len(text)))

\* the offset at which line row of a text starts: behind its (row-1)-th
\* line break
LineStartOffset(text, row) ==
  IF row = 1 THEN 0
  ELSE CHOOSE j \in 1..Len(text) :
         /\ text[j] = NL
         /\ Cardinality({ m \in 1..j : text[m] = NL }) = row - 1

\* C17: ArrowLeft with cursorCol > 1 takes 1 off cursorCol and cursorIdx;
\* with cursorCol = 1 and cursorRow > 1 it goes to the end of the line
\* before (cursorCol = len(prevLine)+1, cursorIdx-1); at the start of the
\* text it changes nothing.  ArrowRight with cursorCol <= len(currentLine)
\* adds 1 to cursorCol and cursorIdx; at the end of a line that is not the
\* last it goes to row+1, column 1, cursorIdx+1; at the end of the text it
\* changes nothing.
C17_HorizontalMoves ==
  pc = "main" =>
    LET lines == TextLines(String(session.rope))
        row == session.cursorRow
        col == session.cursorCol
        idx == session.cursorIdx
        l == editorMoveCursor(session, ArrowLeft)
        r == editorMoveCursor(session, ArrowRight)
    IN /\ row \in 1..Len(lines)
       /\ IF col > 1
          THEN l = [session EXCEPT !.cursorCol = col - 1, !.cursorIdx = idx - 1]
          ELSE IF row > 1
          THEN l = [session EXCEPT !.cursorRow = row - 1,
                                   !.cursorCol = Len(lines[row - 1]) + 1,
                                   !.cursorIdx = idx - 1]
          ELSE l = session /\ idx = 0
       /\ IF col <= Len(lines[row])
          THEN r = [session EXCEPT !.cursorCol = col + 1, !.cursorIdx = idx + 1]
          ELSE IF row < Len(lines)
          THEN r = [session EXCEPT !.cursorRow = row + 1, !.cursorCol = 1,
                                   !.cursorIdx = idx + 1]
          ELSE r = session /\ idx = Length(session.rope)

\* C17 witness: the cursor has come over a line break to the
\* start of the second line, which is not the last
C17_Witness ==
  /\ pc = "main"
  /\ session.cursorRow = 2
  /\ session.cursorCol = 1
  /\ session.cursorIdx > 1
  /\ Len(TextLines(String(session.rope))) > 2

\* C18: from every cursor position that is not the end of the text,
\* ArrowRight and then ArrowLeft give back cursorIdx, cursorRow and
\* cursorCol, also from the end of a line to the start of the next and back.
C18_RightLeftReturns ==
  (pc = "main" /\ session.cursorIdx < Length(session.rope)) =>
    LET b == editorMoveCursor(editorMoveCursor(session, ArrowRight), ArrowLeft)
    IN /\ editorMoveCursor(session, ArrowRight).cursorIdx = session.cursorIdx + 1
       /\ b.cursorIdx = session.cursorIdx
       /\ b.cursorRow = session.cursorRow
       /\ b.cursorCol = session.cursorCol

\* C18 witness: the cursor stands at the end of a first line that has
\* bytes, on the line break
C18_Witness ==
  /\ pc = "main"
  /\ session.cursorRow = 1
  /\ session.cursorCol > 1
  /\ session.cursorIdx < Length(session.rope)
  /\ String(session.rope)[session.cursorIdx + 1] = NL

\* C19: ArrowUp with cursorRow > 1 takes 1 off cursorRow, makes cursorCol
\* min(cursorCol, len(newLine)+1) and cursorIdx the start offset of the new
\* row plus cursorCol-1; ArrowDown with cursorRow < lineCount does the same
\* with 1 added to cursorRow; ArrowUp in row 1 and ArrowDown in the last
\* row change nothing.
C19_VerticalMoves ==
  pc = "main" =>
    LET text == String(session.rope)
        lines == TextLines(text)
        row == session.cursorRow
        col == session.cursorCol
        Min(a, b) == IF a < b THEN a ELSE b
        To(newRow) ==
          LET newCol == Min(col, Len(lines[newRow]) + 1)
          IN [session EXCEPT
                !.cursorRow = newRow,
                !.cursorCol = newCol,
                !.cursorIdx = LineStartOffset(text, newRow) + newCol - 1]
        u == editorMoveCursor(session, ArrowUp)
        d == editorMoveCursor(session, ArrowDown)
    IN /\ row \in 1..Len(lines)
       /\ u = IF row > 1 THEN To(row - 1) ELSE session
       /\ d = IF row < Len(lines) THEN To(row + 1) ELSE session

\* C19 witness: ArrowDown has taken the cursor from a longer line to the end
\* of a shorter second line that has a byte, with a line above and below it
C19_Witness ==
  /\ pc = "main"
  /\ session.cursorRow = 2
  /\ session.cursorCol = 2
  /\ LET lines == TextLines(String(session.rope))
     IN /\ Len(lines) > 2
        /\ Len(lines[1]) > 1
        /\ Len(lines[2]) = 1

\* C20: editorReadKeypress returns 0 when the first read gives the timeout
\* byte 0, and the byte itself after one read when it is not ESC; ESC '['
\* and 'A', 'B', 'C' or 'D' give ArrowUp, ArrowDown, ArrowRight or ArrowLeft;
\* ESC and a timeout at the second or the third read give Esc; and there
\* are never more than three reads.
C20_KeyDecoding ==
  /\ reader.reads <= 3
  /\ reader.at = "done" =>
       /\ reader.firstByte = 0 => reader.key = 0 /\ reader.reads = 1
       /\ reader.firstByte \notin { 0, Esc } =>
            reader.key = reader.firstByte /\ reader.reads = 1
       /\ reader.firstByte = Esc =>
            /\ reader.secondByte = 0 => reader.key = Esc /\ reader.reads = 2
            /\ reader.secondByte # 0 =>
                 /\ reader.reads = 3
                 /\ reader.thirdByte = 0 => reader.key = Esc
                 /\ reader.secondByte = 91 =>
                      /\ reader.thirdByte = 65 => reader.key = ArrowUp
                      /\ reader.thirdByte = 66 => reader.key = ArrowDown
                      /\ reader.thirdByte = 67 => reader.key = ArrowRight
                      /\ reader.thirdByte = 68 => reader.key = ArrowLeft

\* C20 witness: ESC '[' 'D' has been read and decoded
C20_Witness ==
  /\ reader.at = "done"
  /\ reader.reads = 3
  /\ reader.firstByte = Esc
  /\ reader.secondByte = 91
  /\ reader.thirdByte = 68
  /\ reader.key = ArrowLeft

\* the events editorReadKeypress can return: a byte or an arrow
KeyEvents == 0..255 \cup { ArrowUp, ArrowDown, ArrowLeft, ArrowRight }

\* C21: in the main key loop a byte in 32..126 inserts exactly that byte at
\* the cursor and Return (13) inserts one line-break byte; every event that
\* is not an arrow, Ctrl-Q, Ctrl-F, Ctrl-S, Ctrl-Z, Ctrl-R, Return,
\* Backspace or a byte in 32..126 (the timeout event 0 and a lone Esc are
\* such events) leaves buffer, cursor, undoStack and redoStack as they were.
C21_KeyLoopInsertsOrIgnores ==
  pc = "main" =>
    LET text == String(session.rope)
        at == session.cursorIdx
        With(b) == SubSeq(text, 1, at) \o << b >> \o SubSeq(text, at + 1, Len(text))
        After(key) == ProcessKey(session, key).session
        Handled21 == { ArrowUp, ArrowDown, ArrowLeft, ArrowRight, CtrlQ, CtrlF,
                       CtrlS, CtrlZ, CtrlR, Return, Backspace } \cup 32..126
    IN /\ \A key \in 32..126 : String(After(key).rope) = With(key)
       /\ String(After(Return).rope) = With(NL)
       /\ { 0, Esc } \subseteq KeyEvents \ Handled21
       /\ \A key \in KeyEvents \ Handled21 :
            /\ After(key).rope = session.rope
            /\ After(key).cursorIdx = session.cursorIdx
            /\ After(key).cursorRow = session.cursorRow
            /\ After(key).cursorCol = session.cursorCol
            /\ After(key).undoStack = session.undoStack
            /\ After(key).redoStack = session.redoStack

\* C21 witness: the main loop has put a typed byte in front of the byte the
\* session began with, and has recorded the insert
C21_Witness ==
  /\ pc = "main"
  /\ initial = [content |-> << 233 >>, cursorIdx |-> 0]
  /\ String(session.rope) = << 97, 233 >>
  /\ session.cursorIdx = 1
  /\ Len(session.undoStack) = 1

\* C22: when the write of handleSave fails, the error status message is set
\* and the buffer, the cursor, undoStack, redoStack and the filename are
\* what they were before the save was asked for (the prompt for the name
\* changes none of them, so that is the state before the step that writes).
C22_FailedWriteKeepsState ==
  [][statusBar'.msg = "Error saving file" =>
       /\ session'.rope = session.rope
       /\ session'.cursorIdx = session.cursorIdx
       /\ session'.cursorRow = session.cursorRow
       /\ session'.cursorCol = session.cursorCol
       /\ session'.undoStack = session.undoStack
       /\ session'.redoStack = session.redoStack
       /\ session'.filename = session.filename]_vars

\* C23: in the line prompt Esc ends the read loop at once with the empty
\* result, whatever has been typed; Return ends it with the printable input
\* typed so far; Backspace takes the last typed byte off the input (and
\* nothing off an empty input); timeouts and arrows are ignored: the loop
\* goes on with the same input.
C23_PromptKeys ==
  pc = "prompt" =>
    LET input == srch.input
        DropLast == IF Len(input) > 0 THEN SubSeq(input, 1, Len(input) - 1)
                    ELSE << >>
    IN /\ \A i \in 1..Len(input) : input[i] \in 32..126
       /\ statusBar = PromptLine(srch.prompt, input)
       /\ PromptKey(input, Esc).done
       /\ PromptKey(input, Esc).result = << >>
       /\ PromptKey(input, Return).done
       /\ PromptKey(input, Return).result = input
       /\ ~PromptKey(input, Backspace).done
       /\ PromptKey(input, Backspace).input = DropLast
       /\ \A key \in { 0, ArrowUp, ArrowDown, ArrowLeft, ArrowRight } :
            /\ ~PromptKey(input, key).done
            /\ PromptKey(input, key).input = input

\* C23 witness: the prompt for the file name is open and a byte has been
\* typed into it
C23_Witness ==
  /\ pc = "prompt"
  /\ srch.prompt = SavePrompt
  /\ Len(srch.input) > 0

\* the bytes of s from offset a up to offset b, s[a:b] in Go
Bytes(s, a, b) == SubSeq(s, a + 1, b)

\* C25: for each rope r built from a string (and each rope made of it that
\* is present) and each split point 0 <= i <= Length(r), Split(r, i)
\* succeeds and gives L and R with String(L) the first i bytes of String(r)
\* and String(R) the rest, so that String(Concat(L, R)) = String(r).
C25_SplitRoundTrip ==
  rope # Nil =>
    \A i \in 0..Length(rope) :
      LET sp == Split(rope, i)
          text == String(rope)
      IN /\ sp.ok
         /\ String(sp.left) = Bytes(text, 0, i)
         /\ String(sp.right) = Bytes(text, i, Len(text))
         /\ String(Concat(sp.left, sp.right)) = text

\* C25 witness: a rope that has an internal node below its root, so that a
\* split inside it goes down two levels
C25_Witness ==
  /\ rope # Nil
  /\ ~isLeaf(rope)
  /\ ~isLeaf(rope.left) \/ ~isLeaf(rope.right)
  /\ Length(rope) > 2

\* strings that C26 and C27 insert: "", "X" and "hello world"
InsertedStrings ==
  RopeInserts \cup { << 104, 101, 108, 108, 111, 32, 119, 111, 114, 108, 100 >> }

\* C26: for each rope r, offset 0 <= i <= Length(r) and string s,
\* Insert(r, i, s) gives a rope whose string is the first i bytes of
\* String(r), then s, then the rest of String(r), and whose Length is
\* Length(r) + len(s).
C26_InsertResult ==
  \A i \in 0..Length(rope), s \in InsertedStrings :
    LET ins == Insert(rope, i, s)
        text == String(rope)
    IN /\ ins.ok
       /\ String(ins.rope) = Bytes(text, 0, i) \o s \o Bytes(text, i, Len(text))
       /\ Length(ins.rope) = Length(rope) + Len(s)

\* C26 witness: a rope with an internal node that an operation has made,
\* which has offsets inside its left and inside its right subtree
C26_Witness ==
  /\ ops > 0
  /\ rope # Nil
  /\ ~isLeaf(rope)
  /\ rope.weight > 1
  /\ Length(rope) > rope.weight + 1

\* C27: for each rope r, offset 0 <= i <= Length(r) and string s,
\* Insert(r, i, s) and then Delete of i..i+len(s) both succeed and give a
\* rope whose string is String(r).
C27_DeleteUndoesInsert ==
  \A i \in 0..Length(rope), s \in InsertedStrings :
    LET ins == Insert(rope, i, s)
        del == Delete(ins.rope, i, i + Len(s))
    IN /\ ins.ok
       /\ del.ok
       /\ String(del.rope) = String(rope)

\* C27 witness: a rope of several bytes that operations have made, in
\* which there are offsets that are not at an end
C27_Witness ==
  /\ ops > 1
  /\ rope # Nil
  /\ Length(rope) > 2

\* C28: for each rope r that a sequence of rope operations gives,
\* Index(r, i) returns the byte String(r)[i] when 0 <= i < Length(r), and
\* an error and no byte when i < 0 or i >= Length(r).
C28_IndexIsByteOfString ==
  \A i \in -2..(Length(rope) + 2) :
    IF 0 <= i /\ i < Length(rope)
    THEN Index(rope, i) = [ok |-> TRUE, byte |-> String(rope)[i + 1]]
    ELSE ~Index(rope, i).ok

\* C28 witness: operations have made a rope whose root has an internal
\* node as its right child, so that Index goes right and then down again
C28_Witness ==
  /\ ops > 0
  /\ rope # Nil
  /\ ~isLeaf(rope)
  /\ ~isLeaf(rope.right)
  /\ rope.weight > 0

\* C29: for each rope r and range 0 <= start <= end <= Length(r),
\* Substring(r, start, end) returns the bytes String(r)[start..end), with no
\* error when r is present; and for 0 <= i < Length(r) the one byte of
\* Substring(r, i, i+1) is the byte Index(r, i) returns.
C29_SubstringIsBytesOfString ==
  /\ \A start \in 0..Length(rope) :
       \A end \in start..Length(rope) :
         /\ Substring(rope, start, end).str = Bytes(String(rope), start, end)
         /\ rope # Nil => Substring(rope, start, end).ok
  /\ \A i \in 0..(Length(rope) - 1) :
       /\ Substring(rope, i, i + 1).ok
       /\ Index(rope, i).ok
       /\ Substring(rope, i, i + 1).str = << Index(rope, i).byte >>

\* C29 witness: operations have made a rope with an internal node and
\* ranges that begin inside its left and end inside its right subtree
C29_Witness ==
  /\ ops > 0
  /\ rope # Nil
  /\ ~isLeaf(rope)
  /\ rope.weight > 1
  /\ Length(rope) > rope.weight + 2

C24_RopesPersist ==
  [][ops' # ops =>
       /\ Len(heap'.nodes) >= Len(heap.nodes)
       /\ \A a \in 1..Len(heap.nodes) : heap'.nodes[a] = heap.nodes[a]
       /\ \A r \in heap.refs :
            /\ r \in heap'.refs
            /\ RopeAt(heap'.nodes, r) = RopeAt(heap.nodes, r)
            /\ HString(heap'.nodes, r) = HString(heap.nodes, r)
            /\ HLength(heap'.nodes, r) = HLength(heap.nodes, r)]_vars

\* C24 witness: two operations have been applied, and a rope held has a
\* rope held before as its left child and shares it
C24_Witness ==
  /\ ops = 2
  /\ \E r1 \in heap.refs, r2 \in heap.refs :
       /\ r1 # 0
       /\ r2 > r1
       /\ heap.nodes[r2].left = r1
       /\ ~HisLeaf(heap.nodes, r1)

\* C31: for each rope r held, the absent rope included, Concat(r, absent)
\* and Concat(absent, r) return r itself, at its address and with nothing
\* allocated; for two present ropes r1 and r2, Concat(r1, r2) returns a
\* node that was not in memory before, which is an internal node with the
\* children r1 and r2 and the weight Length(r1), and whose string is
\* String(r1) followed by String(r2).
C31_ConcatIdentity ==
  \A r1 \in heap.refs \cup { 0 }, r2 \in heap.refs \cup { 0 } :
    LET c == HConcat(heap.nodes, r1, r2)
    IN IF r1 = 0 THEN c.ref = r2 /\ c.nodes = heap.nodes
       ELSE IF r2 = 0 THEN c.ref = r1 /\ c.nodes = heap.nodes
       ELSE /\ c.ref \notin 0..Len(heap.nodes)
            /\ Len(c.nodes) = Len(heap.nodes) + 1
            /\ SubSeq(c.nodes, 1, Len(heap.nodes)) = heap.nodes
            /\ ~HisLeaf(c.nodes, c.ref)
            /\ c.nodes[c.ref].left = r1
            /\ c.nodes[c.ref].right = r2
            /\ c.nodes[c.ref].weight = HLength(heap.nodes, r1)
            /\ HString(c.nodes, c.ref) =
                 HString(heap.nodes, r1) \o HString(heap.nodes, r2)

\* C31 witness: the last node allocated is the Concat of two present
\* ropes held, the second of them not empty, and an absent rope is held
C31_Witness ==
  /\ ops > 0
  /\ 0 \in heap.refs
  /\ Len(heap.nodes) \in heap.refs
  /\ \E r1 \in heap.refs \ { 0 }, r2 \in heap.refs \ { 0 } :
       /\ heap.nodes[Len(heap.nodes)].left = r1
       /\ heap.nodes[Len(heap.nodes)].right = r2
       /\ HLength(heap.nodes, r2) > 0
       /\ heap.nodes[Len(heap.nodes)].weight = HLength(heap.nodes, r1)

\* C32: for each rope r, the absent rope included, and each start and end,
\* Delete(r, start, end) and Substring(r, start, end) return an error
\* exactly when start < 0 or end > Length(r) or start > end.
C32_RangeErrors ==
  \A start \in -1..(Length(rope) + 1), end \in -1..(Length(rope) + 1) :
    LET invalid == start < 0 \/ end > Length(rope) \/ start > end
    IN /\ Delete(rope, start, end).ok = ~invalid
       /\ Substring(rope, start, end).ok = ~invalid

\* C33: for each rope r, the absent rope included, each offset i and each
\* string s, Insert(r, i, s) returns an error exactly when i < 0 or
\* i > Length(r), and succeeds otherwise.
C33_InsertErrors ==
  \A i \in -1..(Length(rope) + 1), s \in RopeInserts :
    Insert(rope, i, s).ok = ~(i < 0 \/ i > Length(rope))

\* C34: for each rope r, the absent rope included, and each offset i,
\* Split(r, i) returns an error exactly when i < 0 or i > Length(r); at 0
\* on an empty or absent rope it succeeds.
C34_SplitErrors ==
  \A i \in -1..(Length(rope) + 1) :
    Split(rope, i).ok = ~(i < 0 \/ i > Length(rope))

\* each node of r is a leaf of at most maxLeafLength bytes or an internal
\* node with two present children, whose weight is the length of the left
\* one and whose length is the sum of their lengths and the length of its
\* string
RECURSIVE WellFormed(_)
WellFormed(r) ==
  IF r = Nil THEN TRUE
  ELSE IF isLeaf(r) THEN Len(r.data) <= maxLeafLength
  ELSE /\ r.left # Nil
       /\ r.right # Nil
       /\ r.weight = Length(r.left)
       /\ Length(r) = Length(r.left) + Length(r.right)
       /\ Length(r) = Len(String(r))
       /\ WellFormed(r.left)
       /\ WellFormed(r.right)

\* C35: every rope that a sequence of NewRope, Concat, Split, Insert,
\* Delete and Rebalance gives is well formed: each of its nodes is a leaf
\* of at most 8 bytes, or an internal node with exactly two present
\* children, weight = Length(left) and
\* Length = Length(left) + Length(right) = len(String).
C35_WellFormed == WellFormed(rope)

\* C35 witness: two operations have made a rope with an internal node
\* below its root and leaves of different lengths, which NewRope does not
\* build of its string
C35_Witness ==
  /\ ops = 2
  /\ rope # Nil
  /\ ~isLeaf(rope)
  /\ ~isLeaf(rope.left)
  /\ Length(rope.left) # Length(rope.right)
  /\ rope # NewRope(String(rope))

\* the session with its cursorIdx set to k, as a caller inside the package
\* sets it
AtCursor(s, k) == [s EXCEPT !.cursorIdx = k]

RECURSIVE LinesBefore(_, _)
LinesBefore(lines, n) ==
  IF n = 0 THEN 0 ELSE LinesBefore(lines, n - 1) + Len(lines[n]) + 1

\* C37: getLines gives the lines of the buffer text, the runs of bytes
\* between its line breaks, which are one line at least; an empty and an
\* absent buffer give exactly the one empty line; and for each row of the
\* text getLineStartIndex(row) is the sum of len(line) + 1 over the lines
\* before the row, which is the offset at which the row starts.
C37_LinesAndStarts ==
  LET text == String(session.rope)
      lines == getLines(session)
  IN /\ Len(lines) >= 1
     /\ lines = TextLines(text)
     /\ text = << >> => lines = << << >> >>
     /\ getLines([session EXCEPT !.rope = Nil]) = << << >> >>
     /\ \A row \in 1..Len(lines) :
          /\ getLineStartIndex(session, row) = LinesBefore(lines, row - 1)
          /\ getLineStartIndex(session, row) = LineStartOffset(text, row)
          /\ SubSeq(text, getLineStartIndex(session, row) + 1,
                    getLineStartIndex(session, row) + Len(lines[row]))
               = lines[row]

\* C37 witness: the cursor has been moved to the third row of a text whose
\* second line is empty and whose third line has bytes, and it stands at
\* the offset getLineStartIndex gives for the row
C37_Witness ==
  /\ pc = "main"
  /\ session.cursorRow = 3
  /\ session.cursorCol = 1
  /\ Len(getLines(session)) > 2
  /\ Len(getLines(session)[1]) > 0
  /\ Len(getLines(session)[2]) = 0
  /\ Len(getLines(session)[3]) > 0
  /\ session.cursorIdx = getLineStartIndex(session, 3)

\* the rope operation that undoes an Action, applied to the rope r
ReverseOp(r, action) ==
  IF action.actionType = "insert"
  THEN Delete(r, action.position, action.position + Len(action.content))
  ELSE Insert(r, action.position, action.content)

\* the rope operation that performs an Action again, applied to the rope r
ForwardOp(r, action) ==
  IF action.actionType = "insert"
  THEN Insert(r, action.position, action.content)
  ELSE Delete(r, action.position, action.position + Len(action.content))

\* C38: in every state reached by key events, the rope operation that
\* handleUndo performs for the Action on top of undoStack succeeds, and so
\* does the one handleRedo performs for the Action on top of redoStack;
\* the handler that moves the Action to the other stack leaves the buffer
\* that operation returns and the cursor at the offset the Action gives
\* (position, or position + len(content) behind inserted bytes).
C38_UndoRedoOpsSucceed ==
  /\ Len(session.undoStack) > 0 =>
       LET action == session.undoStack[Len(session.undoStack)]
           op == ReverseOp(session.rope, action)
           h == handleUndo(session)
       IN /\ op.ok
          /\ h.rope = op.rope
          /\ h.cursorIdx = IF action.actionType = "insert"
                           THEN action.position
                           ELSE action.position + Len(action.content)
          /\ h.redoStack = Append(session.redoStack, action)
          /\ Append(h.undoStack, action) = session.undoStack
  /\ Len(session.redoStack) > 0 =>
       LET action == session.redoStack[Len(session.redoStack)]
           op == ForwardOp(session.rope, action)
           h == handleRedo(session)
       IN /\ op.ok
          /\ h.rope = op.rope
          /\ h.cursorIdx = IF action.actionType = "insert"
                           THEN action.position + Len(action.content)
                           ELSE action.position
          /\ h.undoStack = Append(session.undoStack, action)
          /\ Append(h.redoStack, action) = session.redoStack

\* C38 witness: an insert has been undone over a recorded delete, so that
\* both stacks hold an Action, and the cursor has been moved away since
C38_Witness ==
  /\ pc = "main"
  /\ Len(session.undoStack) = 1
  /\ Len(session.redoStack) = 1
  /\ session.undoStack[1].actionType = "delete"
  /\ session.redoStack[1].actionType = "insert"
  /\ session.cursorIdx # session.redoStack[1].position

\* C39: while handleSearch cycles through a text in which the query occurs,
\* each iteration of the loop starts its scan at an offset searchFrom with
\* 0 <= searchFrom <= len(text), so that text[searchFrom:] does not panic,
\* and the scan finds the query, so that the cursor is put on an
\* occurrence of it.
C39_ScanStaysInText ==
  LET text == String(session.rope)
  IN /\ pc # "panic"
     /\ pc = "cycle" =>
          /\ srch.numInstances >= 1
          /\ HasPrefixAt(text, srch.query, session.cursorIdx)
     /\ pc = "cycle" /\ srch.i < srch.numInstances =>
          /\ 0 <= srch.searchFrom
          /\ srch.searchFrom <= Len(text)
          /\ StringsIndex(SliceFrom(text, srch.searchFrom), srch.query) # -1

\* the key events the cycling loop of handleSearch has no case for: the
\* timeout, the control bytes but Ctrl-N, Backspace, and the arrows
CycleIgnoredKeys ==
  (0..31 \ { CtrlN }) \cup { Backspace }
    \cup { ArrowUp, ArrowDown, ArrowLeft, ArrowRight }

\* C40: a key event that is neither Ctrl-N nor a printable byte is none
\* the cycling loop acts on; the loop takes at most numInstances
\* iterations; and, the key source delivering Ctrl-N or a printable key in
\* the end, handleSearch returns to the key loop whenever it cycles.
C40_CyclingEnds ==
  /\ [](\A k \in CycleIgnoredKeys :
          k # CtrlN /\ ~isRegularCharacter(ToByte(k)))
  /\ [](pc = "cycle" => srch.i <= srch.numInstances)
  /\ (pc = "cycle") ~> (pc = "main")

====
